---- MODULE Spec2Model ----
(***************************************************************************)
(* A model of the LEPL evaluation engine: the trampoline of                *)
(* lepl/parser.py driving matcher generators over stream positions         *)
(* (lepl/stream.py), with the packrat and left-recursion memoizers.        *)
(*                                                                         *)
(* A generator is a heap record holding its program counter and locals; a  *)
(* step of a generator (next / send / throw) is the operator GenStep.  One *)
(* iteration of the trampoline's while loop is one action.                 *)
(***************************************************************************)
EXTENDS Integers, Sequences, FiniteSets, TLC

VARIABLES
    input,      \* the text handed to the parser
    lines,      \* the chain of Line objects a string stream holds for input
    graph,      \* the matcher graph after prepare() (nodes carry their memoizer)
    mode,       \* which entry point the caller uses
    monitors,   \* the monitors handed to Configuration
    monitor,    \* conf.monitor, the trampoline's monitor argument
    trace,      \* the calls the monitor has received, in order
    ended,      \* for each earlier call of the parser, the length of trace at its end
    heap,       \* generator objects and the memo tables of the matchers
    main,       \* trampoline argument: the root generator
    stack,      \* trampoline local
    value,      \* trampoline local
    exception,  \* trampoline local
    tpc,        \* where the trampoline generator is suspended
    results,    \* what the caller has received from the trampoline, in order
    ret,        \* what the entry point returned to the caller
    source,     \* the Source of a stream: what is left to read and its counters
    chain,      \* the Line objects of a stream, in the order they were made
    views,      \* the StreamView objects held by the user of a stream
    observed,   \* the last operation on a view and what it returned
    threads     \* the threads walking a stream: where each is in Line.next

\* the variables of a parse
parsevars == <<graph, mode, monitors, monitor, trace, ended, heap, main, stack, value, exception, tpc, results, ret>>

\* the variables of a stream taken by itself
streamvars == <<source, chain, views, observed, threads>>

vars == <<input, lines, parsevars, streamvars>>

-----------------------------------------------------------------------------
(* Bounds of the model *)

MaxLen == 3

-----------------------------------------------------------------------------
(* Small helpers *)

Front(s) == SubSeq(s, 1, Len(s) - 1)

Last(s) == s[Len(s)]

Range(s) == {s[i] : i \in DOMAIN s}

RECURSIVE Concat(_)
Concat(ss) == IF ss = <<>> THEN <<>> ELSE Head(ss) \o Concat(Tail(ss))

-----------------------------------------------------------------------------
(* Inputs *)

Alphabet == {"1", "+"}

Digits == {"1", "2", "3", "4", "5", "6", "7"}

TestInputs ==
    { <<"a", "b">>,
      <<"a", "b", "c", "d", "e", "f">>,
      <<"1", "+", "2", "+", "3">>,
      <<"1", "2", "3", "4", "5", "6", "7">>,
      <<"1", "\n", "+", "1">> }

Inputs == UNION {[1..n -> Alphabet] : n \in 0..MaxLen} \cup TestInputs

-----------------------------------------------------------------------------
(* Values held in the trampoline's value register and passed between       *)
(* generators: a generator (t = "gen"), a result (values, stream_out)      *)
(* (t = "res"), None, or an exception instance (t = its class).            *)

Val(t, id, vals, pos) == [t |-> t, id |-> id, vals |-> vals, pos |-> pos]

NoPos == [k |-> "none", s |-> <<>>, line |-> 0, offset |-> 0]

Gen(id) == Val("gen", id, <<>>, NoPos)

Res(vals, pos) == Val("res", 0, vals, pos)

None == Val("None", 0, <<>>, NoPos)

StopIteration == Val("StopIteration", 0, <<>>, NoPos)

IndexError == Val("IndexError", 0, <<>>, NoPos)

TypeError == Val("TypeError", 0, <<>>, NoPos)

\* what the iterator under a LineSource raises when its device fails
IOError == Val("IOError", 0, <<>>, NoPos)

\* mutant: the test is for a plain generator, which no wrapped matcher is
IsPlainGenerator(v) == v.t = "generator"

\* type(value) is GeneratorWrapper
IsGenerator(v) == v.t = "gen"

IsException(v) ==
    v.t \in {"StopIteration", "IndexError", "TypeError", "IOError", "FullFirstMatchException"}

-----------------------------------------------------------------------------
(* Streams.  A parser built with Stream.null works on the str itself: a    *)
(* position is the remaining text.  A parser built with from_string works  *)
(* on StreamView(line, offset) over the Line chain of a LineSource; a Line *)
(* is identified by its index in lines.                                    *)

\* mutant: lines lose their terminator, as str.splitlines() gives them
RECURSIVE SplitLinesNoEnds(_, _)
SplitLinesNoEnds(text, cur) ==
    IF text = <<>> THEN (IF cur = <<>> THEN <<>> ELSE <<cur>>)
    ELSE IF Head(text) = "\n" THEN <<cur>> \o SplitLinesNoEnds(Tail(text), <<>>)
    ELSE SplitLinesNoEnds(Tail(text), Append(cur, Head(text)))

\* iterating StringIO(text): lines keep their terminator
RECURSIVE SplitLines(_, _)
SplitLines(text, cur) ==
    IF text = <<>> THEN (IF cur = <<>> THEN <<>> ELSE <<cur>>)
    ELSE IF Head(text) = "\n" THEN <<Append(cur, "\n")>> \o SplitLines(Tail(text), <<>>)
    ELSE SplitLines(Tail(text), Append(cur, Head(text)))

\* LineSource.__next__ feeding Line.next: every Line with its previous_length
\* and location_state (character_count, line_count); the last Line has
\* line None (empty here, flagged none) and location_state (-1, -1)
RECURSIVE LineChain(_, _, _)
LineChain(raw, character_count, line_count) ==
    IF raw = <<>>
    THEN << [line |-> <<>>, none |-> TRUE, previous_length |-> character_count,
             character_count |-> -1, line_count |-> -1] >>
    ELSE << [line |-> Head(raw), none |-> FALSE, previous_length |-> character_count,
             character_count |-> character_count, line_count |-> line_count] >>
         \o LineChain(Tail(raw), character_count + Len(Head(raw)), line_count + 1)

from_string(text) == LineChain(SplitLines(text, <<>>), 0, 1)

StrPos(s) == [k |-> "str", s |-> s, line |-> 0, offset |-> 0]

StreamView(line, offset) == [k |-> "view", s |-> <<>>, line |-> line, offset |-> offset]

\* a StreamView made by from_lines(lines), where lines is an iterator that
\* gives one line and raises IOError when it is asked for the next: the
\* view holds the Line read when the stream was made, and an offset in it
FaultingView(line, offset) == [k |-> "lines", s |-> line, line |-> 0, offset |-> offset]

\* StreamView.__at on such a view: line.next is reached, and next(source)
\* raises, if the index lies beyond the Line held
Faults(p, index) == p.k = "lines" /\ p.s # <<>> /\ index + p.offset >= Len(p.s)

\* the while loop of StreamView.__at
RECURSIVE AtWalk(_, _)
AtWalk(line, index) ==
    IF lines[line].line # <<>> /\ index >= Len(lines[line].line)
    THEN AtWalk(line + 1, index - Len(lines[line].line))
    ELSE [line |-> line, index |-> index]

\* mutant: the end of the data is an error even for a non-strict index 0
AtEndIsError(p, index, strict) ==
    LET w == AtWalk(p.line, index + p.offset)
    IN  [ok |-> lines[w.line].line # <<>>, line |-> w.line, index |-> w.index]

\* StreamView.__at: ok is FALSE where the code raises IndexError
At(p, index, strict) ==
    LET w == AtWalk(p.line, index + p.offset)
    IN  [ok |-> ~(lines[w.line].line = <<>> /\ (strict \/ w.index # 0)),
         line |-> w.line, index |-> w.index]

\* mutant: a StreamView without __bool__ is true like any object
StreamBoolDefault(p) == IF p.k = "str" THEN p.s # <<>> ELSE TRUE

\* bool(stream)
StreamBool(p) == IF p.k \in {"str", "lines"} THEN p.s # <<>> ELSE lines[p.line].line # <<>>

\* stream[n]: ok is FALSE where the code raises IndexError
StreamItem(p, n) ==
    IF p.k = "str"
    THEN [ok |-> n < Len(p.s), v |-> IF n < Len(p.s) THEN p.s[n + 1] ELSE ""]
    ELSE IF p.k = "lines"
    THEN [ok |-> p.s # <<>> /\ ~Faults(p, n),
          v |-> IF p.s # <<>> /\ ~Faults(p, n) THEN p.s[n + p.offset + 1] ELSE ""]
    ELSE LET a == At(p, n, TRUE)
         IN  [ok |-> a.ok, v |-> IF a.ok THEN lines[a.line].line[a.index + 1] ELSE ""]

\* stream[n:]: ok is FALSE where the code raises IndexError
StreamFrom(p, n) ==
    IF p.k = "str"
    THEN [ok |-> TRUE, v |-> StrPos(SubSeq(p.s, n + 1, Len(p.s)))]
    ELSE IF n = 0 /\ p.offset = 0 THEN [ok |-> TRUE, v |-> p]
    ELSE IF p.k = "lines"
    THEN [ok |-> ~Faults(p, n) /\ (p.s # <<>> \/ n = 0),
          v |-> IF Faults(p, n) THEN p ELSE FaultingView(p.s, n + p.offset)]
    ELSE LET a == At(p, n, FALSE)
         IN  [ok |-> a.ok, v |-> IF a.ok THEN StreamView(a.line, a.index) ELSE p]

\* mutant: the location of the start of the line, the offset dropped
LocationOfLine(p) ==
    [line_number |-> lines[p.line].line_count,
     line_offset |-> 0,
     character_offset |-> lines[p.line].character_count]

\* StreamView.location -> Line.location -> LineSource.location:
\* (line number, line offset, character offset); the line text and the source
\* description are left out
Location(p) ==
    [line_number |-> lines[p.line].line_count,
     line_offset |-> p.offset,
     character_offset |-> lines[p.line].character_count + p.offset]

\* the text from a position to the end of the input
RECURSIVE RestOfLines(_)
RestOfLines(line) ==
    IF lines[line].none THEN <<>> ELSE lines[line].line \o RestOfLines(line + 1)

Remainder(p) ==
    IF p.k = "str" THEN p.s
    ELSE SubSeq(lines[p.line].line, p.offset + 1, Len(lines[p.line].line))
         \o (IF lines[p.line].none THEN <<>> ELSE RestOfLines(p.line + 1))

\* the stream constructor handed to prepare(): Stream.null or Stream.from_string
Stream(kind, text) ==
    IF kind = "null" THEN StrPos(text)
    ELSE IF kind = "lines" THEN FaultingView(text, 0)
    ELSE StreamView(1, 0)

-----------------------------------------------------------------------------
(* Matcher graphs.  A graph is a sequence of nodes, a node names its       *)
(* children by index (so a Delayed back-reference is an index), node 1 is  *)
(* the root.  memo is the memoizer wrapped round the node, if any.         *)

Node(type, kids, chars, lo, hi) ==
    [type |-> type, kids |-> kids, chars |-> chars, lo |-> lo, hi |-> hi, memo |-> "none"]

\* Any(restrict): chars = {} is no restriction
AnyMatcher(chars) == Node("Any", <<>>, chars, 0, 0)

And(kids) == Node("And", kids, {}, 0, 0)

Or(kids) == Node("Or", kids, {}, 0, 0)

\* matcher[lo:hi], greedy
Repeat(kid, lo, hi) == Node("Repeat", <<kid>>, {}, lo, hi)

Optional(kid) == Repeat(kid, 0, 1)

\* PostMatch(matcher, condition, not_, equals, stream_factory): kids are the
\* matcher and the condition; stream_factory is "null" (the result itself is
\* the stream) or "lines" (from_lines over an iterator that fails after the
\* first line)
PostMatch(matcher, condition, not_, equals, stream_factory) ==
    [type |-> "PostMatch", kids |-> <<matcher, condition>>, chars |-> {}, lo |-> 0, hi |-> 0,
     memo |-> "none", not_ |-> not_, equals |-> equals, stream_factory |-> stream_factory]

\* seq := letter & Optional(seq)
RightGraph == << And(<<2, 3>>), AnyMatcher({}), Optional(1) >>

\* seq := Optional(seq) & letter
Left1Graph == << And(<<2, 3>>), Optional(1), AnyMatcher({}) >>

\* seq := letter | (seq & letter)
Left2Graph == << Or(<<2, 3>>), AnyMatcher({}), And(<<1, 2>>) >>

\* E := E '+' digit | digit
ExprGraph == << Or(<<2, 4>>), And(<<1, 3, 4>>), AnyMatcher({"+"}), AnyMatcher(Digits) >>

\* Any()[5]
FiveGraph == << Repeat(2, 5, 5), AnyMatcher({}) >>

\* Any()[1:2]
PairGraph == << Repeat(2, 1, 2), AnyMatcher({}) >>

\* (digit | digit) & Optional(digit), the digit node shared: it is asked for
\* twice at the start and twice at the next position
MixGraph == << And(<<2, 4>>), Or(<<3, 3>>), AnyMatcher(Digits), Optional(3) >>

\* graphs in which no node is reached again at the same position
PlainGraphs == {RightGraph, FiveGraph, PairGraph, MixGraph}

\* graphs whose root calls itself before consuming input
LeftRecursiveGraphs == {Left1Graph, Left2Graph, ExprGraph}

\* the rewriting pass of lepl.graph (postorder / Clone / post_clone): the
\* memoizer is wrapped round the nodes the rewriter selects
post_clone(matcher, memoizer, nodes) ==
    [n \in DOMAIN matcher |->
        IF n \in nodes THEN [matcher[n] EXCEPT !.memo = memoizer] ELSE matcher[n]]

\* memoize(matcher, conf): one rewriting pass per configured memoizer
RECURSIVE memoize(_, _)
memoize(matcher, memoizers) ==
    IF memoizers = <<>> THEN matcher
    ELSE memoize(post_clone(matcher, Head(memoizers).memoizer, Head(memoizers).nodes),
                 Tail(memoizers))

\* Configuration(memoizers=...): none, RMemo on every node or on one node of a
\* plain graph, LMemo on the self-referential node of a left-recursive graph
Configurations(matcher) ==
    IF matcher \in LeftRecursiveGraphs
    THEN { << [memoizer |-> "LMemo", nodes |-> {1}] >> }
    ELSE { <<>> }
         \cup { << [memoizer |-> "RMemo", nodes |-> DOMAIN matcher] >> }
         \cup { << [memoizer |-> "RMemo", nodes |-> {n}] >> : n \in DOMAIN matcher }

-----------------------------------------------------------------------------
(* Generators.  heap.gens[id] is a generator object: the matcher call that *)
(* made it (kind, node, pos), where it is suspended (pc) and its locals.   *)
(*   pc = "start"    created, body not yet entered                         *)
(*        "wait"     suspended at  yield <generator>                       *)
(*        "yielded"  suspended at  yield (values, stream)                  *)
(*        "done"     finished (returned or raised)                         *)
(* stk holds the explicit stack of And and Repeat, cur the entry (or the   *)
(* child generator) in use, idx a loop index, acc collected results.       *)

Entry(count, acc, pos, gen) == [count |-> count, acc |-> acc, pos |-> pos, gen |-> gen]

NoEntry == Entry(0, <<>>, NoPos, 0)

NewGen(h, kind, node, pos) ==
    [h EXCEPT !.gens = Append(@, [kind |-> kind, node |-> node, pos |-> pos, pc |-> "start",
                                   stk |-> <<>>, cur |-> NoEntry, idx |-> 0, acc |-> <<>>])]

EmptyHeap == [gens |-> <<>>, rtable |-> <<>>, ltable |-> <<>>, started |-> <<>>]

\* memo tables and the evaluation counter are association lists on (node, pos)
Key(node, pos) == [node |-> node, pos |-> pos]

Has(table, key) == \E i \in DOMAIN table : table[i].key = key

Slot(table, key) == CHOOSE i \in DOMAIN table : table[i].key = key

Lookup(table, key) == table[Slot(table, key)]

\* the call of the wrapped matcher itself: a fresh generator
CallRaw(h, node, pos) ==
    [h |-> NewGen(h, graph[node].type, node, pos), id |-> Len(h.gens) + 1]

\* mutant: calling an RMemo starts the wrapped matcher afresh every time
CallAfresh(h, node, pos) ==
    IF graph[node].memo = "RMemo" THEN
        LET key == Key(node, pos)
            raw == CallRaw(h, node, pos)
            new == [key |-> key, generator |-> raw.id, table |-> <<>>, stopped |-> FALSE]
            h1  == IF Has(h.rtable, key)
                   THEN [raw.h EXCEPT !.rtable[Slot(h.rtable, key)] = new]
                   ELSE [raw.h EXCEPT !.rtable = Append(@, new)]
        IN  [h |-> NewGen(h1, "RMemo", node, pos), id |-> Len(h1.gens) + 1]
    ELSE IF graph[node].memo = "LMemo" THEN
        [h |-> NewGen(h, "LMemo", node, pos), id |-> Len(h.gens) + 1]
    ELSE CallRaw(h, node, pos)

\* matcher(stream) for a node of the rewritten graph.  Calling an RMemo makes
\* the table entry for (node, stream), with the wrapped matcher's generator,
\* if there is none yet; the generator returned reads that entry
Call(h, node, pos) ==
    IF graph[node].memo = "RMemo" THEN
        LET key == Key(node, pos)
            raw == CallRaw(h, node, pos)
            h1  == IF Has(h.rtable, key) THEN h
                   ELSE [raw.h EXCEPT !.rtable = Append(@,
                            [key |-> key, generator |-> raw.id, table |-> <<>>, stopped |-> FALSE])]
        IN  [h |-> NewGen(h1, "RMemo", node, pos), id |-> Len(h1.gens) + 1]
    ELSE IF graph[node].memo = "LMemo" THEN
        [h |-> NewGen(h, "LMemo", node, pos), id |-> Len(h.gens) + 1]
    ELSE CallRaw(h, node, pos)

\* the generator raises e (or falls off its end: StopIteration) and is finished
Raise(h, id, e) == [h |-> [h EXCEPT !.gens[id].pc = "done"], out |-> e]

\* an exception thrown into a generator that has no handler for it, or a
\* resumption of a finished generator
Unhandled(h, id, sent, v) == Raise(h, id, IF sent = "throw" THEN v ELSE StopIteration)

\* Any: if stream and stream[0] in restrict: yield ([stream[0]], stream[1:])
AnyStep(h, id, sent, v) ==
    LET g    == h.gens[id]
        item == StreamItem(g.pos, 0)
        rest == StreamFrom(g.pos, 1)
        restrict == graph[g.node].chars
    IN  IF g.pc = "start" /\ sent # "throw" THEN
            IF ~StreamBool(g.pos) THEN Raise(h, id, StopIteration)
            ELSE IF Faults(g.pos, 0) THEN Raise(h, id, IOError)
            ELSE IF ~item.ok THEN Raise(h, id, IndexError)
            ELSE IF restrict # {} /\ item.v \notin restrict THEN Raise(h, id, StopIteration)
            ELSE IF Faults(g.pos, 1) THEN Raise(h, id, IOError)
            ELSE IF ~rest.ok THEN Raise(h, id, IndexError)
            ELSE [h |-> [h EXCEPT !.gens[id].pc = "yielded"], out |-> Res(<<item.v>>, rest.v)]
        ELSE Unhandled(h, id, sent, v)

\* Or: the for loop over the alternatives, entered at alternative i
OrTry(h, id, i) ==
    LET g == h.gens[id]
        kids == graph[g.node].kids
    IN  IF i > Len(kids) THEN Raise(h, id, StopIteration)
        ELSE LET c == Call(h, kids[i], g.pos)
             IN  [h |-> [c.h EXCEPT !.gens[id].pc = "wait", !.gens[id].idx = i,
                                    !.gens[id].cur = Entry(0, <<>>, g.pos, c.id)],
                  out |-> Gen(c.id)]

\* Or: for matcher in matchers: generator = matcher(stream);
\*       try: while True: yield (yield generator)  except StopIteration: pass
OrStep(h, id, sent, v) ==
    LET g == h.gens[id]
    IN  CASE g.pc = "start" /\ sent # "throw" -> OrTry(h, id, 1)
          [] g.pc = "wait" /\ sent = "send" ->
                [h |-> [h EXCEPT !.gens[id].pc = "yielded"], out |-> v]
          [] g.pc = "yielded" /\ sent # "throw" ->
                [h |-> [h EXCEPT !.gens[id].pc = "wait"], out |-> Gen(g.cur.gen)]
          [] g.pc \in {"wait", "yielded"} /\ sent = "throw" /\ v = StopIteration ->
                OrTry(h, id, g.idx + 1)
          [] OTHER -> Unhandled(h, id, sent, v)

\* And: while stack: pop the top entry and ask its generator for a result
AndLoop(h, id, stk) ==
    IF stk = <<>> THEN Raise(h, id, StopIteration)
    ELSE [h |-> [h EXCEPT !.gens[id].pc = "wait", !.gens[id].stk = Front(stk),
                          !.gens[id].cur = Last(stk)],
          out |-> Gen(Last(stk).gen)]

\* And: an entry is (result so far, generator, index of the next matcher);
\* a result of the generator puts the entry back and either starts the next
\* matcher on the stream it left or, after the last matcher, is yielded
AndStep(h, id, sent, v) ==
    LET g == h.gens[id]
        kids == graph[g.node].kids
    IN  CASE g.pc = "start" /\ sent # "throw" ->
                IF kids = <<>> THEN Raise(h, id, StopIteration)
                ELSE LET c == Call(h, kids[1], g.pos)
                     IN  AndLoop(c.h, id, << Entry(2, <<>>, g.pos, c.id) >>)
          [] g.pc = "wait" /\ sent = "send" ->
                LET stk1 == Append(g.stk, g.cur)
                    acc1 == g.cur.acc \o v.vals
                IN  IF g.cur.count <= Len(kids)
                    THEN LET c == Call(h, kids[g.cur.count], v.pos)
                         IN  AndLoop(c.h, id,
                                     Append(stk1, Entry(g.cur.count + 1, acc1, v.pos, c.id)))
                    ELSE [h |-> [h EXCEPT !.gens[id].pc = "yielded", !.gens[id].stk = stk1],
                          out |-> Res(acc1, v.pos)]
          [] g.pc = "wait" /\ sent = "throw" /\ v = StopIteration -> AndLoop(h, id, g.stk)
          [] g.pc = "yielded" /\ sent # "throw" -> AndLoop(h, id, g.stk)
          [] OTHER -> Unhandled(h, id, sent, v)

\* Repeat (depth first, greedy): an entry is (count, values so far, stream,
\* generator).  While the top entry may be extended its generator is asked
\* for a result; when it cannot, the entry is yielded if its count is within
\* [lo, hi] and then dropped
RECURSIVE RepeatLoop(_, _, _)
RepeatLoop(h, id, stk) ==
    LET node == graph[h.gens[id].node]
    IN  IF stk = <<>> THEN Raise(h, id, StopIteration)
        ELSE IF Last(stk).count < node.hi
        THEN [h |-> [h EXCEPT !.gens[id].pc = "wait", !.gens[id].stk = stk],
              out |-> Gen(Last(stk).gen)]
        ELSE IF Last(stk).count >= node.lo
        THEN [h |-> [h EXCEPT !.gens[id].pc = "yielded", !.gens[id].stk = stk],
              out |-> Res(Last(stk).acc, Last(stk).pos)]
        ELSE RepeatLoop(h, id, Front(stk))

\* Repeat: the top entry was not extended
RepeatBacktrack(h, id, stk) ==
    LET node == graph[h.gens[id].node]
    IN  IF Last(stk).count >= node.lo /\ Last(stk).count <= node.hi
        THEN [h |-> [h EXCEPT !.gens[id].pc = "yielded", !.gens[id].stk = stk],
              out |-> Res(Last(stk).acc, Last(stk).pos)]
        ELSE RepeatLoop(h, id, Front(stk))

RepeatStep(h, id, sent, v) ==
    LET g == h.gens[id]
        kid == graph[g.node].kids[1]
    IN  CASE g.pc = "start" /\ sent # "throw" ->
                LET c == Call(h, kid, g.pos)
                IN  RepeatLoop(c.h, id, << Entry(0, <<>>, g.pos, c.id) >>)
          [] g.pc = "wait" /\ sent = "send" ->
                LET c == Call(h, kid, v.pos)
                    top == Last(g.stk)
                IN  RepeatLoop(c.h, id,
                               Append(g.stk, Entry(top.count + 1, top.acc \o v.vals, v.pos, c.id)))
          [] g.pc = "wait" /\ sent = "throw" /\ v = StopIteration ->
                RepeatBacktrack(h, id, g.stk)
          [] g.pc = "yielded" /\ sent # "throw" -> RepeatLoop(h, id, Front(g.stk))
          [] OTHER -> Unhandled(h, id, sent, v)

-----------------------------------------------------------------------------
(* The packrat memoizer.  The table entry of (node, stream) holds the      *)
(* wrapped matcher's generator, the results pulled from it so far and      *)
(* whether it is exhausted.  A reader yields the recorded results in       *)
(* order and pulls from the generator only past the end of the record.     *)

\* mutant: a reader does not replay what the entry has recorded
RMemoReadNoReplay(h, id) ==
    LET g == h.gens[id]
        e == Lookup(h.rtable, Key(g.node, g.pos))
    IN  IF e.stopped THEN Raise(h, id, StopIteration)
        ELSE [h |-> [h EXCEPT !.gens[id].pc = "wait"], out |-> Gen(e.generator)]

\* a reader at index idx of the entry's record
RMemoRead(h, id) ==
    LET g == h.gens[id]
        e == Lookup(h.rtable, Key(g.node, g.pos))
    IN  IF g.idx < Len(e.table)
        THEN [h |-> [h EXCEPT !.gens[id].pc = "yielded", !.gens[id].idx = g.idx + 1],
              out |-> e.table[g.idx + 1]]
        ELSE IF e.stopped THEN Raise(h, id, StopIteration)
        ELSE [h |-> [h EXCEPT !.gens[id].pc = "wait"], out |-> Gen(e.generator)]

RMemoStep(h, id, sent, v) ==
    LET g == h.gens[id]
        slot == Slot(h.rtable, Key(g.node, g.pos))
    IN  CASE g.pc \in {"start", "yielded"} /\ sent # "throw" -> RMemoRead(h, id)
          [] g.pc = "wait" /\ sent = "send" ->
                RMemoRead([h EXCEPT !.rtable[slot].table = Append(@, v)], id)
          [] g.pc = "wait" /\ sent = "throw" /\ v = StopIteration ->
                Raise([h EXCEPT !.rtable[slot].stopped = TRUE], id, StopIteration)
          [] OTHER -> Unhandled(h, id, sent, v)

-----------------------------------------------------------------------------
(* The left-recursion memoizer.  The first call at (node, stream) installs *)
(* the seed (no results, not complete) and evaluates the wrapped matcher   *)
(* round after round; a call at a key that has an entry, complete or not,  *)
(* replays the results the entry holds.  A round that produces a result    *)
(* the entry lacks replaces the entry's results and is followed by another *)
(* round; a round that produces none completes the entry.                  *)

LMemoReplay(h, id) ==
    LET g == h.gens[id]
        e == Lookup(h.ltable, Key(g.node, g.pos))
    IN  IF g.idx < Len(e.results)
        THEN [h |-> [h EXCEPT !.gens[id].pc = "yielded", !.gens[id].idx = g.idx + 1],
              out |-> e.results[g.idx + 1]]
        ELSE Raise(h, id, StopIteration)

LMemoRound(h, id) ==
    LET g == h.gens[id]
        c == CallRaw(h, g.node, g.pos)
    IN  [h |-> [c.h EXCEPT !.gens[id].pc = "wait", !.gens[id].acc = <<>>,
                           !.gens[id].cur = Entry(0, <<>>, g.pos, c.id)],
         out |-> Gen(c.id)]

\* a round has produced nothing the entry does not hold already
LMemoFixpoint(acc, previous) == Range(acc) \subseteq Range(previous)

LMemoStep(h, id, sent, v) ==
    LET g == h.gens[id]
        key == Key(g.node, g.pos)
    IN  CASE g.pc = "start" /\ sent # "throw" ->
                IF Has(h.ltable, key) THEN LMemoReplay(h, id)
                ELSE LMemoRound([h EXCEPT !.ltable = Append(@,
                                    [key |-> key, results |-> <<>>, complete |-> FALSE])], id)
          [] g.pc = "wait" /\ sent = "send" ->
                [h |-> [h EXCEPT !.gens[id].acc = Append(@, v)], out |-> Gen(g.cur.gen)]
          [] g.pc = "wait" /\ sent = "throw" /\ v = StopIteration ->
                LET slot == Slot(h.ltable, key)
                IN  IF LMemoFixpoint(g.acc, h.ltable[slot].results)
                    THEN LMemoReplay([h EXCEPT !.ltable[slot].complete = TRUE], id)
                    ELSE LMemoRound([h EXCEPT !.ltable[slot].results = g.acc], id)
          [] g.pc = "yielded" /\ sent # "throw" -> LMemoReplay(h, id)
          [] OTHER -> Unhandled(h, id, sent, v)

-----------------------------------------------------------------------------
(* One resumption of a generator: next(g) is sent = "next", g.send(v) is   *)
(* "send", g.throw(v) is "throw".  out is what the generator yields, or    *)
(* the exception it raises.  started counts, for each (node, stream), the  *)
(* generators of the node's own matcher whose body has been entered.       *)

CountStart(h, id) ==
    LET g == h.gens[id]
        key == Key(g.node, g.pos)
    IN  IF g.pc # "start" \/ g.kind \in {"RMemo", "LMemo"} THEN h
        ELSE IF Has(h.started, key)
        THEN [h EXCEPT !.started[Slot(h.started, key)].count = @ + 1]
        ELSE [h EXCEPT !.started = Append(@, [key |-> key, count |-> 1])]

\* PostMatch.match, from the end of the for loop: if success the results of
\* the matcher are yielded, otherwise the matcher is asked for its next
\* results (yield generator, at the top of while True)
PostMatchDone(h, id, success) ==
    LET g == h.gens[id]
    IN  IF success
        THEN [h |-> [h EXCEPT !.gens[id].pc = "yielded"], out |-> Res(g.acc, g.cur.pos)]
        ELSE [h |-> [h EXCEPT !.gens[id].pc = "matcher"], out |-> Gen(g.stk[1])]

\* the head of for result in results, at result number i:
\* generator2 = condition._match(stream_factory(result)); yield generator2
PostMatchLoop(h, id, i, success) ==
    LET g == h.gens[id]
        node == graph[g.node]
        result == << g.acc[i] >>
        c == Call(h, node.kids[2],
                  IF node.stream_factory = "null" THEN StrPos(result)
                  ELSE FaultingView(result, 0))
    IN  IF i > Len(g.acc) \/ ~success THEN PostMatchDone(h, id, success)
        ELSE [h |-> [c.h EXCEPT !.gens[id].pc = "condition", !.gens[id].idx = i],
              out |-> Gen(c.id)]

\* the body of the try, given results2; an IndexError of results2[0] is
\* caught by the except clause like any other exception
PostMatchTest(node, result, results2) ==
    IF node.not_
    THEN IF ~node.equals \/ Len(results2) = 1 THEN FALSE
         ELSE IF results2 = <<>> THEN TRUE
         ELSE results2[1] # result
    ELSE ~(node.equals /\ (Len(results2) # 1 \/ results2[1] # result))

\* PostMatch.match.  pc is "matcher" at yield generator, "condition" at
\* yield generator2, "yielded" at yield (results, stream_out).  Only
\* yield generator2 is inside the try: whatever is thrown in there is caught
\* by except:, which sets success = False unless not_ is set
PostMatchStep(h, id, sent, v) ==
    LET g == h.gens[id]
        node == graph[g.node]
        c == Call(h, node.kids[1], g.pos)
    IN  IF g.pc = "start" /\ sent # "throw" THEN
            [h |-> [c.h EXCEPT !.gens[id].pc = "matcher", !.gens[id].stk = << c.id >>],
             out |-> Gen(c.id)]
        ELSE IF g.pc = "yielded" /\ sent # "throw" THEN
            [h |-> [h EXCEPT !.gens[id].pc = "matcher"], out |-> Gen(g.stk[1])]
        ELSE IF g.pc = "matcher" /\ sent = "send" THEN
            PostMatchLoop([h EXCEPT !.gens[id].acc = v.vals, !.gens[id].cur.pos = v.pos],
                          id, 1, TRUE)
        ELSE IF g.pc = "condition" /\ sent = "send" THEN
            PostMatchLoop(h, id, g.idx + 1, PostMatchTest(node, g.acc[g.idx], v.vals))
        ELSE IF g.pc = "condition" /\ sent = "throw" THEN
            PostMatchLoop(h, id, g.idx + 1, node.not_)
        ELSE Unhandled(h, id, sent, v)

GenStep(h, id, sent, v) ==
    LET kind == h.gens[id].kind
        h1 == CountStart(h, id)
    IN  CASE kind = "Any" -> AnyStep(h1, id, sent, v)
          [] kind = "Or" -> OrStep(h1, id, sent, v)
          [] kind = "And" -> AndStep(h1, id, sent, v)
          [] kind = "Repeat" -> RepeatStep(h1, id, sent, v)
          [] kind = "RMemo" -> RMemoStep(h1, id, sent, v)
          [] kind = "LMemo" -> LMemoStep(h1, id, sent, v)
          [] kind = "PostMatch" -> PostMatchStep(h1, id, sent, v)

-----------------------------------------------------------------------------
(* The entry points.  prepare() rewrites the matcher and returns           *)
(*   parser = lambda arg: trampoline(matcher(stream(arg, conf)), ...)      *)
(* make_matcher hands that out as it is (the caller iterates over it),     *)
(* make_parser wraps it in single(), and the full-match variant checks     *)
(* the stream the first result leaves.                                     *)

StreamKinds == {"null", "string"}

Modes == {"matcher", "parser", "full"}

Graphs == PlainGraphs \cup LeftRecursiveGraphs

Pending == [kind |-> "pending", vals |-> <<>>, error |-> None]

Returned(kind, vals) == [kind |-> kind, vals |-> vals, error |-> None]

Raised(error) == [kind |-> "raise", vals |-> <<>>, error |-> error]

-----------------------------------------------------------------------------
(* The stream as the code builds it: a source that is read a chunk at a    *)
(* time, Line objects that are linked as they are read, and StreamView     *)
(* objects that refer to a Line and an offset.  A memory m is the source   *)
(* together with the Line objects made so far, chain[id] being the Line    *)
(* with identity id; next = 0 stands for __next = None.                    *)

\* Source.total_length = None
NoLength == -1

\* line_length of the CharacterSource of the model
LineLength == 2

\* the texts streams are made of
StreamAlphabet == {"a", "\n"}

StreamTexts ==
    UNION {[1..n -> StreamAlphabet] : n \in 0..MaxLen}
        \cup { <<"a", "b", "\n", "c">>, <<"a", "\n", "b", "c">> }

\* the most StreamView objects held at a time
MaxViews == 3

\* LineSource(StringIO(text)): reads counts the calls of __next__
LineSource(text) ==
    [kind |-> "LineSource", rest |-> SplitLines(text, <<>>), character_count |-> 0,
     line_count |-> 1, total_length |-> NoLength, reads |-> 0]

\* CharacterSource(items, line_length = LineLength)
CharacterSource(items) ==
    [kind |-> "CharacterSource", rest |-> items, character_count |-> 0,
     line_count |-> 1, total_length |-> NoLength, reads |-> 0,
     line_length |-> LineLength]

Sources(text) == {LineSource(text), CharacterSource(text)}

\* LineSource.__next__: (line, (character_count, line_count)), or
\* (None, (-1, -1)) with total_length set once the lines have run out
LineSourceNext(src) ==
    IF src.rest # <<>>
    THEN [source |-> [src EXCEPT !.rest = Tail(@),
                                 !.character_count = @ + Len(Head(src.rest)),
                                 !.line_count = @ + 1,
                                 !.reads = @ + 1],
          line |-> Head(src.rest), none |-> FALSE,
          location_state |-> [character_count |-> src.character_count,
                              line_count |-> src.line_count]]
    ELSE [source |-> [src EXCEPT !.total_length = src.character_count, !.reads = @ + 1],
          line |-> <<>>, none |-> TRUE,
          location_state |-> [character_count |-> -1, line_count |-> -1]]

\* mutant: the characters of the line just read are not counted
CharacterSourceNextUncounted(src) ==
    LET n == IF Len(src.rest) < src.line_length THEN Len(src.rest) ELSE src.line_length
    IN  IF n > 0
        THEN [source |-> [src EXCEPT !.rest = SubSeq(@, n + 1, Len(@)),
                                     !.reads = @ + 1],
              line |-> SubSeq(src.rest, 1, n), none |-> FALSE,
              location_state |-> [character_count |-> src.character_count,
                                  line_count |-> -1]]
        ELSE [source |-> [src EXCEPT !.total_length = src.character_count, !.reads = @ + 1],
              line |-> <<>>, none |-> TRUE,
              location_state |-> [character_count |-> -1, line_count |-> -1]]

\* mutant: the item after a full chunk is read and lost
CharacterSourceNextSkips(src) ==
    LET n == IF Len(src.rest) < src.line_length THEN Len(src.rest) ELSE src.line_length
    IN  IF n > 0
        THEN [source |-> [src EXCEPT !.rest = SubSeq(@, n + 2, Len(@)),
                                     !.character_count = @ + n,
                                     !.reads = @ + 1],
              line |-> SubSeq(src.rest, 1, n), none |-> FALSE,
              location_state |-> [character_count |-> src.character_count,
                                  line_count |-> -1]]
        ELSE [source |-> [src EXCEPT !.total_length = src.character_count, !.reads = @ + 1],
              line |-> <<>>, none |-> TRUE,
              location_state |-> [character_count |-> -1, line_count |-> -1]]

\* CharacterSource.__next__: up to line_length items and the character
\* count before them, or (None, -1) with total_length set
CharacterSourceNext(src) ==
    LET n == IF Len(src.rest) < src.line_length THEN Len(src.rest) ELSE src.line_length
    IN  IF n > 0
        THEN [source |-> [src EXCEPT !.rest = SubSeq(@, n + 1, Len(@)),
                                     !.character_count = @ + n,
                                     !.reads = @ + 1],
              line |-> SubSeq(src.rest, 1, n), none |-> FALSE,
              location_state |-> [character_count |-> src.character_count,
                                  line_count |-> -1]]
        ELSE [source |-> [src EXCEPT !.total_length = src.character_count, !.reads = @ + 1],
              line |-> <<>>, none |-> TRUE,
              location_state |-> [character_count |-> -1, line_count |-> -1]]

\* next(self.source), defined with the sources that transform a stream
RECURSIVE SourceNext(_)

\* Line(line, previous_length, location_state)
Line(line, none, previous_length, location_state) ==
    [line |-> line, none |-> none, previous_length |-> previous_length,
     location_state |-> location_state, next |-> 0]

\* bool(line.line)
Truthy(node) == ~node.none /\ node.line # <<>>

\* previous_length = self.previous_length + len(self.line), or
\* self.previous_length if self.line is None (TypeError)
PreviousLength(node) ==
    IF node.none THEN node.previous_length ELSE node.previous_length + Len(node.line)

\* self.__next = Line(line, previous_length, location_state), r being what
\* the source returned
Publish(c, id, r) ==
    Append([c EXCEPT ![id].next = Len(c) + 1],
           Line(r.line, r.none, PreviousLength(c[id]), r.location_state))

\* the memory and the new Line once the source has returned r
LineRead(m, id, r) ==
    [m |-> [source |-> r.source, chain |-> Publish(m.chain, id, r)], id |-> Len(m.chain) + 1]

\* mutant: the Line read before is not kept, the source is read again
LineNextUncached(m, id) == LineRead(m, id, SourceNext(m.source))

\* Line.next: the Line after this one, read from the source the first time
LineNext(m, id) ==
    IF m.chain[id].next # 0 THEN [m |-> m, id |-> m.chain[id].next]
    ELSE LineRead(m, id, SourceNext(m.source))

\* a StreamView object: __line and __offset.  advanced is not a field of
\* the object: it records by how many items the view was advanced from the
\* first view of the stream
View(line, offset, advanced) == [line |-> line, offset |-> offset, advanced |-> advanced]

\* DefaultStreamFactory.__call__: StreamView(Line().next)
Open(src) ==
    LET r == LineNext([source |-> src,
                       chain |-> << Line(<<>>, TRUE, 0,
                                         [character_count |-> -1, line_count |-> -1]) >>], 1)
    IN  [m |-> r.m, view |-> View(r.id, 0, 0)]

\* what an operation on a view gives back: the memory afterwards and either
\* IndexError or the result (an item or a sequence in items, a number in n,
\* a truth value in flag, a (line, offset) pair in line and n)
Out(m, error, items, n, flag, line) ==
    [m |-> m, error |-> error, items |-> items, n |-> n, flag |-> flag, line |-> line]

Failed(m) == Out(m, TRUE, <<>>, 0, FALSE, 0)

\* StreamView.__at, index being index + self.__offset already: the
\* (line, index) pair for which index lies within line
RECURSIVE ViewAt(_, _, _, _)

\* the loop goes on from the Line that r = line.next has given
ViewAtNext(r, index, strict) == ViewAt(r.m, r.id, index, strict)

ViewAt(m, line, index, strict) ==
    IF Truthy(m.chain[line]) /\ index >= Len(m.chain[line].line)
    THEN ViewAtNext(LineNext(m, line), index - Len(m.chain[line].line), strict)
    ELSE IF ~Truthy(m.chain[line]) /\ (strict \/ index # 0) THEN Failed(m)
    ELSE Out(m, FALSE, <<>>, index, FALSE, line)

\* line.line[index], a being the (line, index) pair that __at has returned
ItemAt(a) ==
    IF a.error THEN a
    ELSE Out(a.m, FALSE, << a.m.chain[a.line].line[a.n + 1] >>, 0, FALSE, 0)

\* StreamView.__getitem__(n): one item
GetItem(m, v, index) == ItemAt(ViewAt(m, v.line, index + v.offset, TRUE))

Min(a, b) == IF a < b THEN a ELSE b

\* the while loop of StreamView.__getitem__(slice(n, m)): lines is what has
\* been gathered so far
RECURSIVE SliceLoop(_, _, _, _)

\* the body of the loop, r being what line = line.next has given and l the
\* Line itself
SliceLine(r, l, remainder, gathered) ==
    IF Truthy(l)
    THEN SliceLoop(r.m, r.id, remainder - Len(l.line),
                   gathered \o SubSeq(l.line, 1, Min(remainder, Len(l.line))))
    ELSE SliceLoop(r.m, r.id, remainder, gathered)

SliceNext(r, remainder, gathered) == SliceLine(r, r.m.chain[r.id], remainder, gathered)

\* mutant: what was gathered is returned when the Lines run out
SliceLoopShort(m, line, remainder, gathered) ==
    IF Truthy(m.chain[line]) /\ remainder > 0
    THEN SliceNext(LineNext(m, line), remainder, gathered)
    ELSE Out(m, FALSE, gathered, 0, FALSE, 0)

SliceLoop(m, line, remainder, gathered) ==
    IF Truthy(m.chain[line]) /\ remainder > 0
    THEN SliceNext(LineNext(m, line), remainder, gathered)
    ELSE IF remainder > 0 THEN Failed(m)
    ELSE Out(m, FALSE, gathered, 0, FALSE, 0)

\* the slice from a, the (line, start) pair that __at has returned
SliceAt(a, length) ==
    IF a.error THEN a
    ELSE LET line_length == Len(a.m.chain[a.line].line)
         IN  SliceLoop(a.m, a.line, length - (line_length - a.n),
                       SubSeq(a.m.chain[a.line].line, a.n + 1,
                              Min(a.n + length, line_length)))

\* StreamView.__getitem__(slice(start, stop)), 0 <= start <= stop: the join
\* of the items
GetSlice(m, v, start, stop) ==
    IF stop - start = 0 THEN Out(m, FALSE, <<>>, 0, FALSE, 0)
    ELSE SliceAt(ViewAt(m, v.line, start + v.offset, TRUE), stop - start)

\* mutant: the offset of the view is left out of the index
GetFromStart(m, v, start) ==
    IF start = 0 /\ v.offset = 0 THEN Out(m, FALSE, <<>>, v.offset, TRUE, v.line)
    ELSE ViewAt(m, v.line, start, FALSE)

\* StreamView.__getitem__(slice(start, None)): the (line, offset) of the
\* view returned; self is returned if start and the offset are 0
GetFrom(m, v, start) ==
    IF start = 0 /\ v.offset = 0 THEN Out(m, FALSE, <<>>, v.offset, TRUE, v.line)
    ELSE ViewAt(m, v.line, start + v.offset, FALSE)

\* the while loop of StreamView.__len__
RECURSIVE LenLoop(_, _)

LenNext(r) == LenLoop(r.m, r.id)

LenLoop(m, line) ==
    IF m.source.total_length = NoLength THEN LenNext(LineNext(m, line)) ELSE m

\* the length once the source has a total_length
LengthFrom(e, v) ==
    Out(e, FALSE, <<>>,
        e.source.total_length - (e.chain[v.line].previous_length + v.offset),
        FALSE, 0)

\* StreamView.__len__
ViewLen(m, v) == LengthFrom(LenLoop(m, v.line), v)

\* StreamView.__bool__
ViewBool(m, v) == Out(m, FALSE, <<>>, 0, Truthy(m.chain[v.line]), 0)

\* mutant: the offset is not compared
ViewEqLineOnly(v, w) == v.line = w.line

\* StreamView.__eq__ (a Line defines no __eq__: two are equal if they are
\* the same object)
ViewEq(v, w) == v.line = w.line /\ v.offset = w.offset

\* what location gives back: the memory afterwards and either an error or
\* the tuple (line number, line offset, character offset, line); the source
\* description is left out
Located(m, error, line_number, line_offset, character_offset, line) ==
    [m |-> m, error |-> error, line_number |-> line_number, line_offset |-> line_offset,
     character_offset |-> character_offset, line |-> line]

\* LineSource.location
LineSourceLocation(m, offset, node) ==
    Located(m, FALSE, node.location_state.line_count, offset,
            node.location_state.character_count + offset, node.line)

\* CharacterSource.location: the line number is None (0 here), and
\* self.join(line) raises TypeError for the line None of the end
CharacterSourceLocation(m, offset, node) ==
    Located(m, node.none, 0, offset, node.location_state.character_count + offset,
            node.line)

\* StreamView.location on a stream of a LineSource or a CharacterSource
SourceLocation(m, v) ==
    IF m.source.kind = "LineSource"
    THEN LineSourceLocation(m, v.offset, m.chain[v.line])
    ELSE CharacterSourceLocation(m, v.offset, m.chain[v.line])

\* location_state = None
NoView == View(0, 0, 0)

\* the transforms of the model, each making a list of items of an item:
\* "visible" is the transform of a filter whose predicate is that the item
\* is no newline, "doubled" drops the newlines and repeats the other items,
\* "paired" drops the newlines and makes of a character c the string cc
Transforms == {"visible", "doubled", "paired"}

\* transform(item), each item of the list being the sequence of its
\* elements, which is what a Line makes of it: a character c is <<c>>
\* (c[0] is c and len(c) is 1) and the string cc is <<c, c>>
Transformed(transform, item) ==
    IF item = "\n" THEN <<>>
    ELSE IF transform = "visible" THEN << <<item>> >>
    ELSE IF transform = "paired" THEN << <<item, item>> >>
    ELSE << <<item>>, <<item>> >>

\* TransformedSource(transform, stream) or, caching,
\* CachingTransformedSource(transform, stream); inner is the memory of the
\* stream that is transformed, stream the position in it
TransformedSource(caching, transform, inner, stream) ==
    [kind |-> "TransformedSource", caching |-> caching, transform |-> transform,
     inner |-> inner, stream |-> stream,
     state |-> [stream_before |-> NoView, transformed |-> <<>>],
     length |-> 0, total_length |-> NoLength, reads |-> 0,
     lookup |-> <<>>, earliest_possible_source |-> NoView]

\* next(self.source) for the stream that a source transforms: a stream over
\* a LineSource or a CharacterSource
OriginalSourceNext(src) ==
    IF src.kind = "LineSource" THEN LineSourceNext(src) ELSE CharacterSourceNext(src)

\* Line.next in that stream
OriginalLineNext(m, id) ==
    IF m.chain[id].next # 0 THEN [m |-> m, id |-> m.chain[id].next]
    ELSE LineRead(m, id, OriginalSourceNext(m.source))

\* StreamView.__at in that stream
RECURSIVE OriginalViewAt(_, _, _, _)

OriginalViewAtNext(r, index, strict) == OriginalViewAt(r.m, r.id, index, strict)

OriginalViewAt(m, line, index, strict) ==
    IF Truthy(m.chain[line]) /\ index >= Len(m.chain[line].line)
    THEN OriginalViewAtNext(OriginalLineNext(m, line), index - Len(m.chain[line].line), strict)
    ELSE IF ~Truthy(m.chain[line]) /\ (strict \/ index # 0) THEN Failed(m)
    ELSE Out(m, FALSE, <<>>, index, FALSE, line)

\* self.__stream[0]
OriginalGetItem(m, v, index) == ItemAt(OriginalViewAt(m, v.line, index + v.offset, TRUE))

\* self.__stream[1:]
OriginalGetFrom(m, v, start) ==
    IF start = 0 /\ v.offset = 0 THEN Out(m, FALSE, <<>>, v.offset, TRUE, v.line)
    ELSE OriginalViewAt(m, v.line, start + v.offset, FALSE)

\* the while loop of __next__: src is the source with __stream (and, if
\* caching, __earliest_possible_source) as the loop has left them
RECURSIVE TransformLoop(_, _, _)

\* the body of the loop, head being self.__stream[0] and rest
\* self.__stream[1:]: stream_before is the stream the item came from,
\* transformed what the transform makes of the item
TransformBody(src, head, rest) ==
    TransformLoop(
        [src EXCEPT !.inner = rest.m,
                    !.stream = View(rest.line, rest.n, src.stream.advanced + 1),
                    !.earliest_possible_source =
                        IF src.caching /\ @ = NoView THEN src.stream ELSE @],
        src.stream, Transformed(src.transform, head.items[1]))

TransformItem(src, head) == TransformBody(src, head, OriginalGetFrom(head.m, src.stream, 1))

\* mutant: an if in the place of the while, so that an item of which the
\* transform makes nothing ends the search
TransformLoopOnce(src, stream_before, transformed) ==
    IF transformed = <<>> /\ ViewBool(src.inner, src.stream).flag
    THEN LET head == OriginalGetItem(src.inner, src.stream, 0)
             rest == OriginalGetFrom(head.m, src.stream, 1)
         IN  [src |-> [src EXCEPT !.inner = rest.m,
                                  !.stream = View(rest.line, rest.n, src.stream.advanced + 1),
                                  !.earliest_possible_source =
                                      IF src.caching /\ @ = NoView THEN src.stream ELSE @],
              stream_before |-> src.stream,
              transformed |-> Transformed(src.transform, head.items[1])]
    ELSE [src |-> src, stream_before |-> stream_before, transformed |-> transformed]

TransformLoop(src, stream_before, transformed) ==
    IF transformed = <<>> /\ ViewBool(src.inner, src.stream).flag
    THEN TransformItem(src, OriginalGetItem(src.inner, src.stream, 0))
    ELSE [src |-> src, stream_before |-> stream_before, transformed |-> transformed]

\* what the loop has left, with the stream after the item in the place of
\* the stream the item came from
StreamAfter(w) == [w EXCEPT !.stream_before = w.src.stream]

\* the end of BaseTransformedSource.__next__, w being what the loop has
\* left: (item, stream_before), or (None, None) with total_length set
BaseTransformedItem(w) ==
    IF w.transformed # <<>>
    THEN [source |-> [w.src EXCEPT !.state = [stream_before |-> w.stream_before,
                                              transformed |-> Tail(w.transformed)],
                                   !.length = @ + 1,
                                   !.reads = @ + 1],
          line |-> Head(w.transformed), none |-> FALSE,
          location_state |-> w.stream_before]
    ELSE [source |-> [w.src EXCEPT !.total_length = w.src.length, !.reads = @ + 1],
          line |-> <<>>, none |-> TRUE, location_state |-> NoView]

\* mutant: the state kept with the item is the stream after the item
BaseTransformedSourceNextAfter(src) ==
    BaseTransformedItem(
        StreamAfter(TransformLoop(src, src.state.stream_before, src.state.transformed)))

\* BaseTransformedSource.__next__
BaseTransformedSourceNext(src) ==
    BaseTransformedItem(TransformLoop(src, src.state.stream_before, src.state.transformed))

\* the end of __next__ with the position the item was made at in the cache
CachingTransformedItemExact(w) ==
    LET index == SourceLocation(w.src.inner, w.stream_before).character_offset
    IN  IF w.transformed # <<>>
        THEN [source |-> [w.src EXCEPT !.state = [stream_before |-> w.stream_before,
                                                  transformed |-> Tail(w.transformed)],
                                       !.length = @ + 1,
                                       !.reads = @ + 1,
                                       !.lookup = IF index \in DOMAIN @ THEN @
                                                  ELSE (index :> w.stream_before) @@ @,
                                       !.earliest_possible_source =
                                           IF Tail(w.transformed) = <<>> THEN NoView ELSE @],
              line |-> Head(w.transformed), none |-> FALSE,
              location_state |-> w.stream_before]
        ELSE [source |-> [w.src EXCEPT !.total_length = w.src.length, !.reads = @ + 1],
              line |-> <<>>, none |-> TRUE, location_state |-> NoView]

\* the end of CachingTransformedSource.__next__: as that of
\* BaseTransformedSource.__next__, and __lookup[stream_before.character_offset]
\* is set, if it is not set yet, to the first position read since the last
\* list of items ran out
CachingTransformedItem(w) ==
    LET index == SourceLocation(w.src.inner, w.stream_before).character_offset
    IN  IF w.transformed # <<>>
        THEN [source |-> [w.src EXCEPT !.state = [stream_before |-> w.stream_before,
                                                  transformed |-> Tail(w.transformed)],
                                       !.length = @ + 1,
                                       !.reads = @ + 1,
                                       !.lookup = IF index \in DOMAIN @ THEN @
                                                  ELSE (index :> w.src.earliest_possible_source) @@ @,
                                       !.earliest_possible_source =
                                           IF Tail(w.transformed) = <<>> THEN NoView ELSE @],
              line |-> Head(w.transformed), none |-> FALSE,
              location_state |-> w.stream_before]
        ELSE [source |-> [w.src EXCEPT !.total_length = w.src.length, !.reads = @ + 1],
              line |-> <<>>, none |-> TRUE, location_state |-> NoView]

\* mutant: the position the item was made at is cached, not the earliest
\* position since the item before
CachingTransformedSourceNextExact(src) ==
    CachingTransformedItemExact(
        TransformLoop(src, src.state.stream_before, src.state.transformed))

\* CachingTransformedSource.__next__
CachingTransformedSourceNext(src) ==
    CachingTransformedItem(TransformLoop(src, src.state.stream_before, src.state.transformed))

\* next(self.source)
SourceNext(src) ==
    IF src.kind = "LineSource" THEN LineSourceNext(src)
    ELSE IF src.kind = "CharacterSource" THEN CharacterSourceNext(src)
    ELSE IF src.caching THEN CachingTransformedSourceNext(src)
    ELSE BaseTransformedSourceNext(src)

\* mutant: the location of a position of the original stream whatever the
\* location state is
BaseDelegateSourceLocationOfNone(m, offset, node) ==
    LET loc == SourceLocation(m.source.inner, m.source.stream)
    IN  [loc EXCEPT !.m = m]

\* BaseDelegateSource.location: the location of location_state[offset:] in
\* the original stream, or (-1, -1, -1, None, None)
BaseDelegateSourceLocation(m, offset, node) ==
    IF node.location_state # NoView /\ ViewBool(m.source.inner, node.location_state).flag
    THEN LET s == GetFrom(m.source.inner, node.location_state, offset)
             shifted == IF s.flag THEN node.location_state
                        ELSE View(s.line, s.n, node.location_state.advanced + offset)
             loc == SourceLocation(s.m, shifted)
         IN  IF s.error THEN Located(m, TRUE, 0, 0, 0, <<>>)
             ELSE [loc EXCEPT !.m = [m EXCEPT !.source.inner = loc.m]]
    ELSE Located(m, FALSE, -1, -1, -1, <<>>)

\* StreamView.location: Line.location(offset), that is
\* source.location(offset, line, location_state)
ViewLocation(m, v) ==
    IF m.source.kind = "TransformedSource"
    THEN BaseDelegateSourceLocation(m, v.offset, m.chain[v.line])
    ELSE SourceLocation(m, v)

\* CachingTransformedSource.locate (Transform.locate, Filter.locate):
\* self.__lookup[stream.character_offset]; error where the code raises
\* KeyError, else the position in the original stream as (line, n)
locate(m, v) ==
    LET loc == ViewLocation(m, v)
        index == loc.character_offset
    IN  IF loc.error \/ index \notin DOMAIN loc.m.source.lookup THEN Failed(loc.m)
        ELSE Out(loc.m, FALSE, <<>>, loc.m.source.lookup[index].offset, FALSE,
                 loc.m.source.lookup[index].line)

\* a parse uses the stream of the matchers: no stream is taken by itself
StreamIdle ==
    /\ source = LineSource(<<>>)
    /\ chain = <<>>
    /\ views = <<>>
    /\ observed = [op |-> "none"]
    /\ threads = <<>>

-----------------------------------------------------------------------------
(* Monitors.  A monitor is an instance of a subclass of MonitorInterface.  *)
(* One that inherits next_iteration has the three-parameter method of      *)
(* monitor.py; one that is to survive the trampoline's call, which passes  *)
(* epoch as well, has to override it (RecordingMonitor, which also records *)
(* every call it receives).                                                *)

NoMonitor == "None"

MonitorInterface == "MonitorInterface"

RecordingMonitor == "RecordingMonitor"

\* the lists of monitors a Configuration is built with
MonitorLists ==
    { <<>>, <<MonitorInterface>>, <<RecordingMonitor>>,
      <<RecordingMonitor, RecordingMonitor>>, <<MonitorInterface, RecordingMonitor>> }

\* the graphs that are parsed with monitors as well as without
MonitoredGraphs == {PairGraph, MixGraph}

\* MultipleMonitors(monitors): __init__(self) takes no such argument
MultipleMonitors(ms) == [ok |-> FALSE, monitor |-> NoMonitor, error |-> TypeError]

\* Configuration.__init__: self.monitor
Configuration(ms) ==
    IF ms = <<>> THEN [ok |-> TRUE, monitor |-> NoMonitor, error |-> None]
    ELSE IF Len(ms) = 1 THEN [ok |-> TRUE, monitor |-> ms[1], error |-> None]
    ELSE MultipleMonitors(ms)

\* a call of a method of the monitor, with its arguments
Note(call, generator, v, flag, stk) ==
    [call |-> call, generator |-> generator, value |-> v, exception |-> flag, stack |-> stk]

\* the length of trace when the trampoline of this call of the parser began
Begin == IF ended = <<>> THEN 0 ELSE Last(ended)

\* monitor.next_iteration(epoch, value, exception, stack): epoch counts the
\* iterations of this trampoline, and so its calls of next_iteration
Epoch ==
    1 + Cardinality({i \in DOMAIN trace : i > Begin /\ trace[i].call = "next_iteration"})

NextIteration == Note("next_iteration", Epoch, value, exception, stack)

\* the call passes four arguments: a monitor that inherits next_iteration
\* from MonitorInterface raises TypeError
NextIterationRaises == monitor = MonitorInterface

\* if monitor: monitor.<call>(...), for each call in calls
Notified(calls) == IF monitor = NoMonitor THEN trace ELSE trace \o calls

\* Configuration(memoizers, monitors), prepare(matcher, stream, conf) and the
\* call parser(arg): the graph is rewritten, the stream is made and the root
\* matcher is called on it.  tpc is "unbuilt" if Configuration() raised:
\* there is no parser then
Setup(matcher, kind, text, m, memoizers, ms) ==
    /\ input = text
    /\ lines = from_string(text)
    /\ mode = m
    /\ StreamIdle
    /\ monitors = ms
    /\ monitor = Configuration(ms).monitor
    /\ trace = <<>>
    /\ ended = <<>>
    /\ stack = <<>>
    /\ value = None
    /\ exception = FALSE
    /\ results = <<>>
    /\ IF Configuration(ms).ok
       THEN /\ graph = memoize(matcher, memoizers)
            /\ LET c == Call(EmptyHeap, 1, Stream(kind, text))
               IN  heap = c.h /\ main = Gen(c.id)
            /\ tpc = "new"
            /\ ret = Pending
       ELSE /\ graph = matcher
            /\ heap = EmptyHeap
            /\ main = None
            /\ tpc = "unbuilt"
            /\ ret = Raised(Configuration(ms).error)

\* a parse with the default of Configuration: no monitors
Init ==
    \E matcher \in Graphs, kind \in StreamKinds, text \in Inputs, m \in Modes :
    \E memoizers \in Configurations(matcher) :
        Setup(matcher, kind, text, m, memoizers, <<>>)

\* a parse with any of the lists of monitors
MonitorInit ==
    \E matcher \in MonitoredGraphs, kind \in StreamKinds, text \in Inputs, m \in Modes :
    \E memoizers \in Configurations(matcher), ms \in MonitorLists :
        Setup(matcher, kind, text, m, memoizers, ms)

-----------------------------------------------------------------------------
(* trampoline(main): one action per path through one iteration of          *)
(* while True.  tpc is "new" before the first next(), "loop" at the top of *)
(* the loop, "suspended" at yield value, "closed" once an exception has    *)
(* left the generator.                                                     *)

\* mutant: the root generator is not tagged, so that the loop takes it for
\* an ordinary value
StartUntagged ==
    /\ tpc = "new"
    /\ stack' = <<>>
    /\ value' = [main EXCEPT !.t = "generator"]
    /\ exception' = FALSE
    /\ tpc' = "loop"
    /\ UNCHANGED <<streamvars, input, lines, graph, mode, ended, monitors, monitor, trace, heap, main, results, ret>>

\* the first next() of the caller runs the prologue: stack = [], value = main
Start ==
    /\ tpc = "new"
    /\ stack' = <<>>
    /\ value' = main
    /\ exception' = FALSE
    /\ tpc' = "loop"
    /\ UNCHANGED <<streamvars, input, lines, graph, mode, ended, monitors, monitor, trace, heap, main, results, ret>>

\* monitor.next_iteration raises inside the try: the handler keeps the
\* exception (value = e; exception = True; monitor.exception(value)) or, if
\* the flag is set already, re-raises it to the caller
MonitorFault ==
    /\ tpc = "loop"
    /\ NextIterationRaises
    /\ value' = TypeError
    /\ exception' = TRUE
    /\ tpc' = IF exception THEN "closed" ELSE "loop"
    /\ trace' = IF exception THEN trace
                ELSE Notified(<< Note("exception", 0, TypeError, FALSE, <<>>) >>)
    /\ UNCHANGED <<streamvars, input, lines, graph, mode, ended, monitors, monitor, heap, main, stack, results, ret>>

\* mutant: the monitor is not told of the outcome of a step
AfterStepUnnoticed(r, flag, before, after) ==
    /\ heap' = r.h
    /\ value' = r.out
    /\ exception' = (flag \/ IsException(r.out))
    /\ tpc' = IF flag /\ IsException(r.out) THEN "closed" ELSE "loop"
    /\ trace' = Notified(before)

\* the end of an iteration that resumed a generator.  flag is the exception
\* flag as the body left it.  If the generator returned, the monitor's
\* after_... method is called.  If it raised, the handler
\* (except Exception as e) re-raises to the caller when the flag is set and
\* otherwise keeps the exception: value = e; exception = True;
\* monitor.exception(value)
AfterStep(r, flag, before, after) ==
    /\ heap' = r.h
    /\ value' = r.out
    /\ exception' = (flag \/ IsException(r.out))
    /\ tpc' = IF flag /\ IsException(r.out) THEN "closed" ELSE "loop"
    /\ trace' = Notified(before \o
                    (IF ~IsException(r.out) THEN << Note(after, 0, r.out, FALSE, <<>>) >>
                     ELSE IF flag THEN <<>>
                     ELSE << Note("exception", 0, r.out, FALSE, <<>>) >>))

\* mutant: the flag is still set when the exception is thrown into the frame
ExceptionKept == TRUE

\* exception = False, just before stack[-1].throw(value)
ExceptionCleared == FALSE

\* mutant: the frame beneath the popped frame is dropped with it
PoppedTwice(s) == IF Len(s) > 2 THEN Front(Front(s)) ELSE Front(s)

\* the stack after  pop = stack.pop()
Popped(s) == Front(s)

\* mutant: the value is delivered to the frame that was popped
ReceiverIsPopped(s) == Last(s)

\* the frame a popped frame's value or exception is delivered to
Receiver(s) == Last(Popped(s))

\* pop = stack.pop(); if monitor: monitor.pop(pop)
Pop == << NextIteration, Note("pop", Last(stack), None, FALSE, <<>>) >>

\* mutant: the monitor is not told of the generator that is started
DescendUnannounced ==
    /\ tpc = "loop"
    /\ ~NextIterationRaises
    /\ IsGenerator(value)
    /\ stack' = Append(stack, value.id)
    /\ AfterStep(GenStep(heap, value.id, "next", None), exception,
                 << NextIteration >>, "after_next")
    /\ UNCHANGED <<streamvars, input, lines, graph, mode, ended, monitors, monitor, main, results, ret>>

\* value is a GeneratorWrapper: stack.append(value); value = next(value)
Descend ==
    /\ tpc = "loop"
    /\ ~NextIterationRaises
    /\ IsGenerator(value)
    /\ stack' = Append(stack, value.id)
    /\ AfterStep(GenStep(heap, value.id, "next", None), exception,
                 << NextIteration, Note("push", value.id, None, FALSE, <<>>),
                    Note("before_next", value.id, None, FALSE, <<>>) >>,
                 "after_next")
    /\ UNCHANGED <<streamvars, input, lines, graph, mode, ended, monitors, monitor, main, results, ret>>

\* pop; the stack is not empty, no exception: value = stack[-1].send(value)
Send ==
    /\ tpc = "loop"
    /\ ~NextIterationRaises
    /\ ~IsGenerator(value)
    /\ Len(stack) > 1
    /\ ~exception
    /\ stack' = Popped(stack)
    /\ AfterStep(GenStep(heap, Receiver(stack), "send", value), exception,
                 Append(Pop, Note("before_send", Receiver(stack), value, FALSE, <<>>)),
                 "after_send")
    /\ UNCHANGED <<streamvars, input, lines, graph, mode, ended, monitors, monitor, main, results, ret>>

\* mutant: the exception is thrown into the bottom frame, all frames above
\* it dropped at once
ThrowToBottom ==
    /\ tpc = "loop"
    /\ ~NextIterationRaises
    /\ ~IsGenerator(value)
    /\ Len(stack) > 1
    /\ exception
    /\ stack' = << Head(stack) >>
    /\ AfterStep(GenStep(heap, Head(stack), "throw", value), ExceptionCleared,
                 Append(Pop, Note("before_throw", Head(stack), value, FALSE, <<>>)),
                 "after_throw")
    /\ UNCHANGED <<streamvars, input, lines, graph, mode, ended, monitors, monitor, main, results, ret>>

\* pop; the stack is not empty, exception: exception = False;
\* value = stack[-1].throw(value)
Throw ==
    /\ tpc = "loop"
    /\ ~NextIterationRaises
    /\ ~IsGenerator(value)
    /\ Len(stack) > 1
    /\ exception
    /\ stack' = Popped(stack)
    /\ AfterStep(GenStep(heap, Receiver(stack), "throw", value), ExceptionCleared,
                 Append(Pop, Note("before_throw", Receiver(stack), value, FALSE, <<>>)),
                 "after_throw")
    /\ UNCHANGED <<streamvars, input, lines, graph, mode, ended, monitors, monitor, main, results, ret>>

\* mutant: the trampoline does not wait for the caller after a result
YieldRunsOn ==
    /\ tpc = "loop"
    /\ ~NextIterationRaises
    /\ ~IsGenerator(value)
    /\ Len(stack) = 1
    /\ ~exception
    /\ stack' = Popped(stack)
    /\ results' = Append(results, value)
    /\ value' = main
    /\ trace' = Notified(Append(Pop, Note("yield_", 0, value, FALSE, <<>>)))
    /\ UNCHANGED <<streamvars, input, lines, graph, mode, ended, monitors, monitor, heap, main, exception, tpc, ret>>

\* pop; the stack is empty, no exception: yield value
Yield ==
    /\ tpc = "loop"
    /\ ~NextIterationRaises
    /\ ~IsGenerator(value)
    /\ Len(stack) = 1
    /\ ~exception
    /\ stack' = Popped(stack)
    /\ results' = Append(results, value)
    /\ tpc' = "suspended"
    /\ trace' = Notified(Append(Pop, Note("yield_", 0, value, FALSE, <<>>)))
    /\ UNCHANGED <<streamvars, input, lines, graph, mode, ended, monitors, monitor, heap, main, value, exception, ret>>

\* mutant: the exception is dropped and the root generator is tried again
RaiseValueRestarts ==
    /\ tpc = "loop"
    /\ ~NextIterationRaises
    /\ ~IsGenerator(value)
    /\ Len(stack) = 1
    /\ exception
    /\ stack' = Popped(stack)
    /\ value' = main
    /\ exception' = FALSE
    /\ trace' = Notified(Pop)
    /\ UNCHANGED <<streamvars, input, lines, graph, mode, ended, monitors, monitor, heap, main, tpc, results, ret>>

\* pop; the stack is empty, exception: raise value, which the handler
\* re-raises because exception is set
RaiseValue ==
    /\ tpc = "loop"
    /\ ~NextIterationRaises
    /\ ~IsGenerator(value)
    /\ Len(stack) = 1
    /\ exception
    /\ stack' = Popped(stack)
    /\ tpc' = "closed"
    /\ trace' = Notified(Append(Pop, Note("raise_", 0, value, FALSE, <<>>)))
    /\ UNCHANGED <<streamvars, input, lines, graph, mode, ended, monitors, monitor, heap, main, value, exception, results, ret>>

\* mutant: the statement after the yield is missing
ResumeKeepsValue ==
    /\ tpc = "suspended"
    /\ mode = "matcher"
    /\ tpc' = "loop"
    /\ UNCHANGED <<streamvars, input, lines, graph, mode, ended, monitors, monitor, trace, heap, main, stack, value, exception, results, ret>>

\* the caller asks for the next result: the statement after the yield,
\* value = main, and the loop goes on
Resume ==
    /\ tpc = "suspended"
    /\ mode = "matcher"
    /\ value' = main
    /\ tpc' = "loop"
    /\ UNCHANGED <<streamvars, input, lines, graph, mode, ended, monitors, monitor, trace, heap, main, stack, exception, results, ret>>

\* the caller's iteration over the matcher's generator ends
Exhausted ==
    /\ tpc = "closed"
    /\ mode = "matcher"
    /\ ret = Pending
    /\ ret' = IF value = StopIteration THEN Returned("results", results) ELSE Raised(value)
    /\ UNCHANGED <<streamvars, input, lines, graph, mode, ended, monitors, monitor, trace, heap, main, stack, value, exception, tpc, results>>

\* mutant: single() without its except clause
SingleNoExcept ==
    /\ mode = "parser"
    /\ ret = Pending
    /\ tpc \in {"suspended", "closed"}
    /\ ret' = IF tpc = "suspended" THEN Returned("values", Last(results).vals)
              ELSE Raised(value)
    /\ UNCHANGED <<streamvars, input, lines, graph, mode, ended, monitors, monitor, trace, heap, main, stack, value, exception, tpc, results>>

\* single(arg): try: return next(matcher(arg))[0]
\*              except StopIteration: return None
Single ==
    /\ mode = "parser"
    /\ ret = Pending
    /\ tpc \in {"suspended", "closed"}
    /\ ret' = IF tpc = "suspended" THEN Returned("values", Last(results).vals)
              ELSE IF value = StopIteration THEN Returned("None", <<>>)
              ELSE Raised(value)
    /\ UNCHANGED <<streamvars, input, lines, graph, mode, ended, monitors, monitor, trace, heap, main, stack, value, exception, tpc, results>>

\* what the full-match error reports: the text left over and where it starts
\* (for a str the offset into the input; for a string stream the line number
\* and the one-based character within the line as well)
FullFirstMatchException(stream) ==
    [t |-> "FullFirstMatchException",
     remainder |-> Remainder(stream),
     offset |-> IF stream.k = "str" THEN Len(input) - Len(stream.s)
                ELSE Location(stream).character_offset,
     line |-> IF stream.k = "str" THEN 0 ELSE Location(stream).line_number,
     character |-> IF stream.k = "str" THEN 0 ELSE Location(stream).line_offset + 1]

\* the full-match variant: the first result is returned only if the stream
\* it leaves is empty, otherwise the parse fails with the error above
FullMatch ==
    /\ mode = "full"
    /\ ret = Pending
    /\ tpc \in {"suspended", "closed"}
    /\ ret' = IF tpc = "suspended"
              THEN IF StreamBool(Last(results).pos)
                   THEN Raised(FullFirstMatchException(Last(results).pos))
                   ELSE Returned("values", Last(results).vals)
              ELSE IF value = StopIteration THEN Returned("None", <<>>)
              ELSE Raised(value)
    /\ UNCHANGED <<streamvars, input, lines, graph, mode, ended, monitors, monitor, trace, heap, main, stack, value, exception, tpc, results>>

Next ==
    \/ Start
    \/ Descend
    \/ Send
    \/ Throw
    \/ Yield
    \/ RaiseValue
    \/ Resume
    \/ Exhausted
    \/ Single
    \/ FullMatch

Spec == Init /\ [][Next]_vars

\* the trampoline with a monitor: an iteration may end in next_iteration
MonitorNext ==
    \/ MonitorFault
    \/ Next

MonitorSpec == MonitorInit /\ [][MonitorNext]_vars

\* the interpreter runs the trampoline and its caller for as long as either
\* has a step to take
FairSpec == Spec /\ WF_vars(Next)

-----------------------------------------------------------------------------
(* A parser that is called more than once.  prepare() builds the parser    *)
(* once: each call makes a stream of its argument, calls the root matcher  *)
(* and starts a trampoline, with the monitor of the configuration.         *)

\* the most calls of one parser
MaxCalls == 2

\* parsers built without memoizers, with no monitor or a monitor that records
InvokeInit ==
    \E matcher \in MonitoredGraphs, kind \in StreamKinds, text \in Inputs, m \in Modes :
    \E ms \in { <<>>, <<RecordingMonitor>> } :
        Setup(matcher, kind, text, m, <<>>, ms)

\* parser(arg), once the call before it has returned:
\* trampoline(matcher(stream(arg, conf)), monitor=conf.monitor)
Again ==
    /\ ret # Pending
    /\ tpc # "unbuilt"
    /\ Len(ended) + 1 < MaxCalls
    /\ ended' = Append(ended, Len(trace))
    /\ LET c == Call(EmptyHeap, 1, heap.gens[main.id].pos)
       IN  heap' = c.h /\ main' = Gen(c.id)
    /\ stack' = <<>>
    /\ value' = None
    /\ exception' = FALSE
    /\ results' = <<>>
    /\ tpc' = "new"
    /\ ret' = Pending
    /\ UNCHANGED <<streamvars, input, lines, graph, mode, monitors, monitor, trace>>

InvokeNext ==
    \/ Next
    \/ Again

InvokeSpec == InvokeInit /\ [][InvokeNext]_vars

-----------------------------------------------------------------------------
(* Parsers with the monitor that records the deepest match.                *)

\* a choice whose first alternative gets further than its second, and both
\* fail unless a "+" follows
BacktrackGraph ==
    << Or(<<2, 3>>), And(<<4, 4, 5>>), And(<<4, 5>>), AnyMatcher({}), AnyMatcher({"+"}) >>

DeepestGraphs == {FiveGraph, PairGraph, BacktrackGraph}

DeepestInit ==
    \E matcher \in DeepestGraphs, kind \in StreamKinds, text \in Inputs, m \in Modes :
    \E memoizers \in Configurations(matcher) :
        Setup(matcher, kind, text, m, memoizers, <<RecordingMonitor>>)

DeepestSpec == DeepestInit /\ [][Next]_vars

-----------------------------------------------------------------------------
(* Parsers with a PostMatch node, over streams whose source may fail: the  *)
(* input is parsed as a str, as a string stream, or as the one line of an  *)
(* iterator that raises IOError when it is asked for a second line.        *)

\* a repetition of, and a choice between, a PostMatch and a plain matcher;
\* the condition accepts "1" only
PostMatchGraphs ==
    UNION {{ << Repeat(2, 1, 2), PostMatch(3, 4, not_, equals, stream_factory),
                AnyMatcher({}), AnyMatcher({"1"}) >>,
             << Or(<<2, 3>>), PostMatch(3, 4, not_, equals, stream_factory),
                AnyMatcher({}), AnyMatcher({"1"}) >> } :
           not_ \in BOOLEAN, equals \in BOOLEAN, stream_factory \in {"null", "lines"}}

PostMatchInit ==
    \E matcher \in PostMatchGraphs, kind \in StreamKinds \cup {"lines"},
       text \in Inputs, m \in Modes :
        /\ kind = "lines" => /\ text # <<>>
                             /\ "\n" \notin Range(Front(text))
                             /\ m # "full"
        /\ Setup(matcher, kind, text, m, <<>>, <<>>)

PostMatchSpec == PostMatchInit /\ [][Next]_vars

-----------------------------------------------------------------------------
(* A stream taken by itself: operations on StreamView objects.             *)

\* no parse takes place
ParseIdle ==
    /\ graph = <<>>
    /\ mode = "stream"
    /\ monitors = <<>>
    /\ monitor = NoMonitor
    /\ trace = <<>>
    /\ ended = <<>>
    /\ heap = EmptyHeap
    /\ main = None
    /\ stack = <<>>
    /\ value = None
    /\ exception = FALSE
    /\ tpc = "unbuilt"
    /\ results = <<>>
    /\ ret = Pending

\* the source and the Line objects as a memory
Mem == [source |-> source, chain |-> chain]

\* no operation observed yet
NoOut == [op |-> "none", view |-> 0, args |-> <<>>, error |-> FALSE, items |-> <<>>,
          n |-> 0, flag |-> FALSE, line |-> 0]

\* what the caller of an operation on views[view] saw
Observed(op, view, args, o) ==
    [op |-> op, view |-> view, args |-> args, error |-> o.error, items |-> o.items,
     n |-> o.n, flag |-> o.flag, line |-> o.line]

\* a stream made by DefaultStreamFactory from a text: the state after
\* from_string(text) or from_items(text, line_length = LineLength)
StreamInit ==
    \E text \in StreamTexts :
    \E src \in Sources(text) :
        /\ input = text
        /\ lines = from_string(text)
        /\ source = Open(src).m.source
        /\ chain = Open(src).m.chain
        /\ views = << Open(src).view >>
        /\ observed = NoOut
        /\ threads = <<>>
        /\ ParseIdle

\* the effect of an operation on the source and the Line objects
Store(o) == source' = o.m.source /\ chain' = o.m.chain

\* position[n]
Index ==
    \E i \in DOMAIN views, n \in 0..MaxLen :
        LET o == GetItem(Mem, views[i], n)
        IN  /\ Store(o)
            /\ observed' = Observed("getitem", i, <<n>>, o)
            /\ UNCHANGED <<views, threads, input, lines, parsevars>>

\* position[start:stop]
Slice ==
    \E i \in DOMAIN views, start \in 0..MaxLen :
    \E stop \in start..MaxLen :
        LET o == GetSlice(Mem, views[i], start, stop)
        IN  /\ Store(o)
            /\ observed' = Observed("getslice", i, <<start, stop>>, o)
            /\ UNCHANGED <<views, threads, input, lines, parsevars>>

\* mutant: the view is moved instead of a new one being made
AdvancedInPlace(vs, i, v) == [vs EXCEPT ![i] = v]

\* return StreamView(*self.__at(index.start)): a new object, the one the
\* operation was applied to is left as it was
Advanced(vs, i, v) == Append(vs, v)

\* position[n:]
Advance ==
    \E i \in DOMAIN views, n \in 0..MaxLen :
        LET o == GetFrom(Mem, views[i], n)
        IN  /\ Len(views) < MaxViews
            /\ Store(o)
            /\ observed' = Observed("getfrom", i, <<n>>, o)
            /\ views' = IF o.error \/ o.flag THEN views
                        ELSE Advanced(views, i, View(o.line, o.n, views[i].advanced + n))
            /\ UNCHANGED <<threads, input, lines, parsevars>>

\* len(position)
Length ==
    \E i \in DOMAIN views :
        LET o == ViewLen(Mem, views[i])
        IN  /\ Store(o)
            /\ observed' = Observed("len", i, <<>>, o)
            /\ UNCHANGED <<views, threads, input, lines, parsevars>>

\* bool(position)
Bool ==
    \E i \in DOMAIN views :
        LET o == ViewBool(Mem, views[i])
        IN  /\ Store(o)
            /\ observed' = Observed("bool", i, <<>>, o)
            /\ UNCHANGED <<views, threads, input, lines, parsevars>>

\* position.location
LocationOf ==
    \E i \in DOMAIN views :
        LET o == ViewLocation(Mem, views[i])
        IN  /\ Store(o)
            /\ observed' = Observed("location", i, <<>>,
                                    Out(o.m, o.error, o.line, o.character_offset, FALSE,
                                        o.line_number))
            /\ UNCHANGED <<views, threads, input, lines, parsevars>>

\* position == other
Equal ==
    \E i \in DOMAIN views, j \in DOMAIN views :
        /\ observed' = [NoOut EXCEPT !.op = "eq", !.view = i, !.args = <<j>>,
                                     !.flag = ViewEq(views[i], views[j])]
        /\ UNCHANGED <<source, chain, views, threads, input, lines, parsevars>>

StreamNext ==
    \/ Index
    \/ Slice
    \/ Advance
    \/ Length
    \/ Bool
    \/ LocationOf
    \/ Equal

\* one thread applying operations to the positions of one stream
StreamSpec == StreamInit /\ [][StreamNext]_vars

-----------------------------------------------------------------------------
(* A transformed or filtered stream: the stream DefaultStreamFactory makes *)
(* of a source that reads a position of another, original, stream.  The    *)
(* variables source, chain and views are those of the transformed stream;  *)
(* the source and the Lines of the original one are in source.inner.       *)

\* the texts of the original streams
FilterTexts == UNION {[1..n -> StreamAlphabet] : n \in 0..MaxLen}

\* the streams made of a stream: FilteredSource.filtered_stream(predicate,
\* stream), Filter(predicate, stream).stream and
\* Transform(transform, stream).stream
Derived ==
    { [caching |-> FALSE, transform |-> "visible"],
      [caching |-> TRUE, transform |-> "visible"],
      [caching |-> TRUE, transform |-> "doubled"] }

\* a derived stream over a stream made by from_string or from_items
FilterInit ==
    \E text \in FilterTexts :
    \E src \in Sources(text) :
    \E derived \in Derived :
        LET original == Open(src)
            made == Open(TransformedSource(derived.caching, derived.transform,
                                           original.m, original.view))
        IN  /\ input = text
            /\ lines = from_string(text)
            /\ source = made.m.source
            /\ chain = made.m.chain
            /\ views = << made.view >>
            /\ observed = NoOut
            /\ threads = <<>>
            /\ ParseIdle

\* Transform.locate(position) or Filter.locate(position)
Locate ==
    \E i \in DOMAIN views :
        LET o == locate(Mem, views[i])
        IN  /\ source.kind = "TransformedSource"
            /\ source.caching
            /\ Store(o)
            /\ observed' = Observed("locate", i, <<>>, o)
            /\ UNCHANGED <<views, threads, input, lines, parsevars>>

FilterNext ==
    \/ StreamNext
    \/ Locate

\* one thread applying operations to the positions of a transformed stream
FilterSpec == FilterInit /\ [][FilterNext]_vars

-----------------------------------------------------------------------------
(* Two threads walking the Lines of one stream, each by  line = line.next  *)
(* for as long as line.line is not empty.  Line.next takes no lock, so the *)
(* interpreter may switch threads between its statements.                  *)

Threads == {1, 2}

NoRead == [line |-> <<>>, none |-> TRUE,
           location_state |-> [character_count |-> -1, line_count |-> -1]]

\* a thread about to evaluate  line.next  for the Line at, or past the end
Walker(c, at, got) ==
    [pc |-> IF Truthy(c[at]) THEN "test" ELSE "done", at |-> at, read |-> NoRead, got |-> got]

ThreadInit ==
    \E text \in StreamTexts :
    \E src \in Sources(text) :
        /\ input = text
        /\ lines = from_string(text)
        /\ source = Open(src).m.source
        /\ chain = Open(src).m.chain
        /\ views = << Open(src).view >>
        /\ observed = NoOut
        /\ threads = [t \in Threads |-> Walker(Open(src).m.chain, Open(src).view.line, <<>>)]
        /\ ParseIdle

\* if not self.__next:
Test(t) ==
    /\ threads[t].pc = "test"
    /\ threads' = [threads EXCEPT ![t].pc = IF chain[threads[t].at].next = 0
                                            THEN "read" ELSE "return"]
    /\ UNCHANGED <<source, chain, views, observed, input, lines, parsevars>>

\* (line, location_state) = next(self.source)
Read(t) ==
    /\ threads[t].pc = "read"
    /\ LET r == SourceNext(source)
       IN  /\ source' = r.source
           /\ threads' = [threads EXCEPT ![t].pc = "assign",
                                         ![t].read = [line |-> r.line, none |-> r.none,
                                                      location_state |-> r.location_state]]
    /\ UNCHANGED <<chain, views, observed, input, lines, parsevars>>

\* self.__next = Line(line, previous_length, location_state)
Assign(t) ==
    /\ threads[t].pc = "assign"
    /\ chain' = Publish(chain, threads[t].at, threads[t].read)
    /\ threads' = [threads EXCEPT ![t].pc = "return"]
    /\ UNCHANGED <<source, views, observed, input, lines, parsevars>>

\* return self.__next, and the walk goes on from there
Return(t) ==
    /\ threads[t].pc = "return"
    /\ LET successor == chain[threads[t].at].next
       IN  threads' = [threads EXCEPT ![t] =
                          Walker(chain, successor,
                                 Append(threads[t].got, <<threads[t].at, successor>>))]
    /\ UNCHANGED <<source, chain, views, observed, input, lines, parsevars>>

ThreadNext ==
    \E t \in Threads :
        \/ Test(t)
        \/ Read(t)
        \/ Assign(t)
        \/ Return(t)

ThreadSpec == ThreadInit /\ [][ThreadNext]_vars

-----------------------------------------------------------------------------
(* The reference evaluator: the matcher protocol evaluated by plain        *)
(* recursion, with no generators, no scheduler and no memoizer.  The       *)
(* result of a node at a stream is the whole ordered sequence of           *)
(* (values, stream_out): alternation concatenates, a sequence is the       *)
(* depth-first left-to-right product, repetition is greedy.                *)

RECURSIVE Eval(_, _)
RECURSIVE EvalAnd(_, _, _, _)
RECURSIVE EvalRepeat(_, _, _, _)

Eval(node, pos) ==
    LET m == graph[node]
    IN  CASE m.type = "Any" ->
                IF StreamBool(pos) /\ (m.chars = {} \/ StreamItem(pos, 0).v \in m.chars)
                THEN << Res(<<StreamItem(pos, 0).v>>, StreamFrom(pos, 1).v) >>
                ELSE <<>>
          [] m.type = "Or" -> Concat([i \in DOMAIN m.kids |-> Eval(m.kids[i], pos)])
          [] m.type = "And" -> IF m.kids = <<>> THEN <<>> ELSE EvalAnd(m.kids, 1, <<>>, pos)
          [] m.type = "Repeat" -> EvalRepeat(node, 0, <<>>, pos)

EvalAnd(kids, i, acc, pos) ==
    IF i > Len(kids) THEN << Res(acc, pos) >>
    ELSE LET rs == Eval(kids[i], pos)
         IN  Concat([j \in DOMAIN rs |-> EvalAnd(kids, i + 1, acc \o rs[j].vals, rs[j].pos)])

EvalRepeat(node, count, acc, pos) ==
    LET m == graph[node]
        rs == IF count < m.hi THEN Eval(m.kids[1], pos) ELSE <<>>
    IN  Concat([j \in DOMAIN rs |-> EvalRepeat(node, count + 1, acc \o rs[j].vals, rs[j].pos)])
        \o (IF count >= m.lo /\ count <= m.hi THEN << Res(acc, pos) >> ELSE <<>>)

\* the stream the parse started on, and what the reference makes of the root
StartPos == heap.gens[main.id].pos

Reference == Eval(1, StartPos)

IsPrefix(s, t) == Len(s) <= Len(t) /\ s = SubSeq(t, 1, Len(s))

Unmemoized == \A n \in DOMAIN graph : graph[n].memo = "none"

Memoizer == IF Unmemoized THEN "none"
            ELSE graph[CHOOSE n \in DOMAIN graph : graph[n].memo # "none"].memo

\* the graph as it was before memoize()
Matcher == [n \in DOMAIN graph |-> [graph[n] EXCEPT !.memo = "none"]]

MemoizedNodes == {n \in DOMAIN graph : graph[n].memo # "none"}

\* the values of the results the caller has received, in order
Values == [i \in DOMAIN results |-> results[i].vals]

\* the first k items of the input
Prefix(k) == SubSeq(input, 1, k)

\* the caller's iteration over the matcher's generator is over
Done == mode = "matcher" /\ ret # Pending

\* ... because the generator was exhausted, not because it raised
Listed == Done /\ ret.kind = "results"

-----------------------------------------------------------------------------
(* Properties *)

\* C1: with no memoizer, what the trampoline has yielded is at every moment
\* an initial part of the reference evaluator's sequence for the same graph
\* and input, and is the whole of it, in the same order, once the root
\* generator is exhausted
C1_TrampolineIsReference ==
    Unmemoized =>
        /\ IsPrefix(results, Reference)
        /\ tpc = "closed" => (value = StopIteration /\ results = Reference)

\* C1 witness: an unmemoized parse has ended after yielding three results or
\* more, all of the reference's
C1_Witness ==
    /\ Unmemoized
    /\ tpc = "closed"
    /\ Len(results) >= 3
    /\ results = Reference

\* C2: seq := letter & Optional(seq) with RMemo on every node yields, for n
\* letters, the n non-empty prefixes, longest first
C2_RightRecursive ==
    (Matcher = RightGraph /\ MemoizedNodes = DOMAIN graph /\ Memoizer = "RMemo" /\ Done) =>
        /\ Listed
        /\ Len(results) = Len(input)
        /\ \A i \in DOMAIN results : Values[i] = Prefix(Len(input) + 1 - i)

\* C2 witness: the test's input, 'ab' as a string stream: ['a','b'] then ['a']
C2_Witness ==
    /\ Matcher = RightGraph /\ MemoizedNodes = DOMAIN graph /\ Memoizer = "RMemo" /\ Listed
    /\ StartPos.k = "view"
    /\ input = <<"a", "b">>
    /\ Values = << <<"a", "b">>, <<"a">> >>

ExprPrefixes ==
    {k \in 1..Len(input) :
        /\ k % 2 = 1
        /\ \A i \in 1..k : IF i % 2 = 1 THEN input[i] \in Digits ELSE input[i] = "+"}

C6_PackratTransparent ==
    Memoizer = "RMemo" =>
        /\ IsPrefix(results, Reference)
        /\ tpc = "closed" => (value = StopIteration /\ results = Reference)

\* the generators that have read the table entry of (node, stream)
Readers(key) ==
    {id \in DOMAIN heap.gens :
        /\ heap.gens[id].kind = "RMemo"
        /\ Key(heap.gens[id].node, heap.gens[id].pos) = key
        /\ heap.gens[id].pc # "start"}

\* C6 witness: a parse with results has ended in which a recorded failure
\* (an exhausted entry with no results) was read to its end by two readers
C6_Witness ==
    /\ Memoizer = "RMemo"
    /\ tpc = "closed"
    /\ results # <<>>
    /\ results = Reference
    /\ \E i \in DOMAIN heap.rtable :
          /\ heap.rtable[i].stopped
          /\ heap.rtable[i].table = <<>>
          /\ Cardinality({id \in Readers(heap.rtable[i].key) : heap.gens[id].pc = "done"}) >= 2

\* C7: the body of the matcher wrapped by an RMemo is entered at most once
\* for each (node, stream) in a parse
C7_EvaluatedOnce ==
    \A i \in DOMAIN heap.started :
        graph[heap.started[i].key.node].memo = "RMemo" => heap.started[i].count <= 1

\* C7 witness: a memoized node was asked for twice at one position, and its
\* matcher ran once
C7_Witness ==
    \E i \in DOMAIN heap.started :
        /\ graph[heap.started[i].key.node].memo = "RMemo"
        /\ heap.started[i].count = 1
        /\ Cardinality(Readers(heap.started[i].key)) >= 2

\* how much of the input the first result has matched (every value is one item)
Consumed == Len(results[1].vals)

\* the newlines among the first k items of the input
Newlines(k) == {i \in 1..k : input[i] = "\n"}

\* where the line holding item k + 1 starts
LineStart(k) ==
    IF Newlines(k) = {} THEN 0 ELSE CHOOSE m \in Newlines(k) : \A i \in Newlines(k) : i <= m

\* C8: a full match whose first result leaves input behind returns no result:
\* it raises the full-match error, which carries the text left over and the
\* offset where it starts and, for a string stream, the one-based line and
\* the one-based character within that line
C8_FullMatchFails ==
    (mode = "full" /\ ret # Pending /\ results # <<>> /\ Consumed < Len(input)) =>
        /\ ret.kind = "raise"
        /\ ret.error.t = "FullFirstMatchException"
        /\ ret.error.remainder = SubSeq(input, Consumed + 1, Len(input))
        /\ ret.error.offset = Consumed
        /\ StartPos.k = "view" =>
              /\ ret.error.line = 1 + Cardinality(Newlines(Consumed))
              /\ ret.error.character = Consumed - LineStart(Consumed) + 1

\* C8 witness: Any()[5] on '1234567' as a string stream fails at '67',
\* offset 5, line 1, character 6
C8_Witness ==
    /\ mode = "full"
    /\ Matcher = FiveGraph
    /\ StartPos.k = "view"
    /\ input = <<"1", "2", "3", "4", "5", "6", "7">>
    /\ ret = Raised([t |-> "FullFirstMatchException", remainder |-> <<"6", "7">>,
                     offset |-> 5, line |-> 1, character |-> 6])

\* the values of the first result the matcher yields for the graph and the
\* input, as a sequence of none or one: the reference's first result, or for
\* the left-recursive graphs the first of the results C3, C4 and C5 list
FirstOfMatcher ==
    IF Matcher = Left1Graph
    THEN (IF input = <<>> THEN <<>> ELSE << Prefix(Len(input)) >>)
    ELSE IF Matcher = Left2Graph
    THEN (IF input = <<>> THEN <<>> ELSE << Prefix(1) >>)
    ELSE IF Matcher = ExprGraph
    THEN (IF ExprPrefixes = {} THEN <<>>
          ELSE << Prefix(CHOOSE k \in ExprPrefixes : \A j \in ExprPrefixes : j <= k) >>)
    ELSE IF Reference = <<>> THEN <<>> ELSE << Head(Reference).vals >>

\* C9: FirstOfMatcher is what the matcher yields first (nothing, if it ends
\* with no result); the parser returns just those values, or None, and has
\* taken no more than that one result from the trampoline
C9_SingleIsFirst ==
    /\ (mode = "matcher" /\ results # <<>>) => FirstOfMatcher = << Values[1] >>
    /\ (Listed /\ results = <<>>) => FirstOfMatcher = <<>>
    /\ mode = "parser" => Len(results) <= 1
    /\ (mode = "parser" /\ ret # Pending) =>
          /\ Len(results) = Len(FirstOfMatcher)
          /\ ret = IF FirstOfMatcher = <<>> THEN Returned("None", <<>>)
                   ELSE Returned("values", FirstOfMatcher[1])

\* C9 witness: the parser has returned ['a','b'] for 'ab', the first of the
\* two results the matcher of seq := letter & Optional(seq) has
C9_Witness ==
    /\ mode = "parser"
    /\ Matcher = RightGraph
    /\ input = <<"a", "b">>
    /\ Len(results) = 1
    /\ ret = Returned("values", <<"a", "b">>)

\* C10: (a) a pop that empties the stack with an ordinary value suspends the
\* trampoline and hands the value to the caller; (b) when the trampoline goes
\* on after that, it does so with value = main and an empty stack, and (c)
\* from an empty stack the root generator is pushed; (d) a StopIteration that
\* empties the stack ends the parse, and (e) an ended parse stays ended and
\* yields nothing more
C10_SuspendResumeExhaust ==
    [][ /\ (tpc = "loop" /\ ~IsGenerator(value) /\ Len(stack) = 1 /\ ~exception) =>
              (tpc' = "suspended" /\ stack' = <<>> /\ results' = Append(results, value))
        /\ (tpc = "suspended" /\ tpc' # "suspended") =>
              (tpc' = "loop" /\ value' = main /\ stack' = <<>> /\ results' = results)
        /\ (tpc = "loop" /\ stack = <<>>) => (value = main /\ stack' = << main.id >>)
        /\ (tpc = "loop" /\ ~IsGenerator(value) /\ Len(stack) = 1 /\ exception) =>
              (tpc' = "closed" /\ results' = results)
        /\ tpc = "closed" => (tpc' = "closed" /\ results' = results /\ value' = value)
      ]_vars

\* C10 witness: the caller has asked for the result after the first and the
\* trampoline is about to push the root generator again
C10_Witness ==
    /\ tpc = "loop"
    /\ stack = <<>>
    /\ value = main
    /\ results # <<>>

\* what the caller of the entry point gets when the trampoline has raised e
Outcome(e) ==
    IF e # StopIteration THEN Raised(e)
    ELSE IF mode = "matcher" THEN Returned("results", results)
    ELSE Returned("None", <<>>)

\* C11: when the pop of a frame that raised leaves the stack empty, the
\* trampoline ends by raising the exception it holds; the caller gets that
\* exception (a StopIteration is the end of the iteration, as for any
\* generator), and no result is yielded afterwards
C11_FatalAtEmptyStack ==
    [][ /\ (tpc = "loop" /\ ~IsGenerator(value) /\ Len(stack) = 1 /\ exception) =>
              (tpc' = "closed" /\ value' = value /\ stack' = <<>> /\ results' = results)
        /\ tpc = "closed" =>
              /\ tpc' = "closed" /\ value' = value /\ results' = results
              /\ ret' # ret => ret' = Outcome(value)
      ]_vars

\* C11 witness: a failure has gone down through three frames or more to the
\* empty stack and the caller has been told, having received no result
C11_Witness ==
    /\ tpc = "closed"
    /\ stack = <<>>
    /\ results = <<>>
    /\ ret = Outcome(value)
    /\ Cardinality({id \in DOMAIN heap.gens : heap.gens[id].pc = "done"}) >= 3

\* the generators that a step has left as they were
Untouched(ids) == \A id \in ids : heap'.gens[id] = heap.gens[id]

\* C12: (a) a step that raises leaves the raising frame on top of the stack
\* with the exception in value and the flag set; (b) the next iteration pops
\* that frame and resumes the frame beneath it, and no other, with the flag
\* cleared: the flag is set after it only if that frame raises in turn;
\* (c) no iteration takes more than one frame off the stack
C12_UnwindOneFrame ==
    [][ /\ (tpc = "loop" /\ tpc' = "loop" /\ IsException(value')) =>
              /\ exception'
              /\ stack' # <<>>
              /\ heap'.gens[Last(stack')].pc = "done"
        /\ (tpc = "loop" /\ ~IsGenerator(value) /\ exception /\ Len(stack) > 1) =>
              /\ stack' = Front(stack)
              /\ tpc' = "loop"
              /\ heap'.gens[Last(stack')] # heap.gens[Last(stack')]
              /\ Untouched((DOMAIN heap.gens) \ {Last(stack')})
              /\ exception' = IsException(value')
        /\ Len(stack') >= Len(stack) - 1
      ]_vars

\* C12 witness: a frame that was thrown a failure has raised in turn, and is
\* on top of two frames or more, about to be popped
C12_Witness ==
    /\ tpc = "loop"
    /\ exception
    /\ Len(stack) >= 3
    /\ heap.gens[Last(stack)].kind # "Any"
    /\ heap.gens[Last(stack)].pc = "done"

-----------------------------------------------------------------------------
\* C13: a parse with a monitor attached yields the results and raises the
\* exceptions of the parse without one: the trampoline, once it has stopped,
\* has stopped with StopIteration and has yielded the results of the
\* reference evaluation, whatever the monitor is.
C13_MonitorTransparent ==
    (monitor # NoMonitor /\ tpc = "closed") =>
        (value = StopIteration /\ results = Reference)

-----------------------------------------------------------------------------
\* the calls the monitor received during a step
NewNotes == SubSeq(trace', Len(trace) + 1, Len(trace'))

\* a step of the trampoline that resumed a frame: the stack changed and the
\* frame resumed is on top of it
FrameStep == tpc = "loop" /\ stack' # stack /\ stack' # <<>>

\* the name of the transition taken by a frame step
Transition ==
    IF Len(stack') > Len(stack) THEN "next"
    ELSE IF exception THEN "throw" ELSE "send"

\* C14: whenever the trampoline descends into a frame (push and next),
\* resumes one (send or throw) or pops one, a monitor that is attached is
\* told: of the push or the pop with the frame pushed or popped; before the
\* frame is stepped, with the frame and the value or exception handed to it
\* (before_next, before_send, before_throw); and after the step, with the
\* value it returned (after_next, after_send, after_throw) or the exception
\* it raised (exception).  These calls are made in this order and nothing
\* else is called in between.
C14_MonitorNotified ==
    [][ monitor # NoMonitor =>
          /\ FrameStep =>
                /\ Len(NewNotes) = 4
                /\ NewNotes[1] = NextIteration
                /\ NewNotes[2] = IF Transition = "next"
                                 THEN Note("push", Last(stack'), None, FALSE, <<>>)
                                 ELSE Note("pop", Last(stack), None, FALSE, <<>>)
                /\ NewNotes[3] = Note("before_" \o Transition, Last(stack'),
                                      IF Transition = "next" THEN None ELSE value,
                                      FALSE, <<>>)
                /\ NewNotes[4] = IF IsException(value')
                                 THEN Note("exception", 0, value', FALSE, <<>>)
                                 ELSE Note("after_" \o Transition, 0, value', FALSE, <<>>)
                /\ heap'.gens[Last(stack')] # heap.gens[Last(stack')]
          /\ (tpc = "loop" /\ Len(stack') < Len(stack)) =>
                /\ Len(NewNotes) >= 2
                /\ NewNotes[2] = Note("pop", Last(stack), None, FALSE, <<>>)
          /\ heap' # heap => FrameStep
      ]_vars

\* a monitored parse in which frames were entered, sent a value, thrown an
\* exception and popped, and in which steps returned and raised
C14_Witness ==
    /\ monitor = RecordingMonitor
    /\ \A c \in {"push", "pop", "before_next", "after_next", "before_send", "after_send",
                 "before_throw", "after_throw", "exception"} :
          \E i \in DOMAIN trace : trace[i].call = c

-----------------------------------------------------------------------------
\* C15: a Configuration takes any number of monitors and a parser is built
\* with it: with none no monitor is attached, with one that monitor is
\* attached, and with two or more a monitor is attached that stands for all
\* of them (it forwards each call to each of them in the order of the list).
C15_ConfigurationMonitors ==
    /\ tpc # "unbuilt"
    /\ monitors = <<>> => monitor = NoMonitor
    /\ Len(monitors) = 1 => monitor = monitors[1]
    /\ Len(monitors) >= 2 => monitor # NoMonitor

-----------------------------------------------------------------------------
\* what the caller sees of the outcome of an operation
Seen(o) == [error |-> o.error, items |-> o.items]

\* the items k to l of the text counted from where a position stands, or
\* IndexError if the text ends before
Expected(v, k, l) ==
    IF v.advanced + l > Len(input) THEN [error |-> TRUE, items |-> <<>>]
    ELSE [error |-> FALSE, items |-> SubSeq(input, v.advanced + k + 1, v.advanced + l)]

\* C16: no operation applied to any position (indexing, slicing, advancing,
\* length, truth test, location, comparison) changes a position that
\* exists: it refers to the same Line at the same offset afterwards.  At
\* all times, whatever has been done before, a position gives the head
\* element and the slices that the text has at the place to which the
\* position was advanced when it was made.
C16_PositionsImmutable ==
    /\ [](\A i \in DOMAIN views :
            /\ Seen(GetItem(Mem, views[i], 0)) = Expected(views[i], 0, 1)
            /\ \A k \in 0..MaxLen : Seen(GetSlice(Mem, views[i], 0, k)) = Expected(views[i], 0, k))
    /\ [][\A i \in DOMAIN views : i \in DOMAIN views' /\ views'[i] = views[i]]_vars

\* an earlier position was read again after two positions were made from
\* it that lie in later Lines
C16_Witness ==
    /\ Len(views) = 3
    /\ views[2].line > views[1].line
    /\ views[3].line > views[2].line
    /\ observed.op = "getslice" /\ observed.view = 1 /\ Len(observed.items) >= 2

-----------------------------------------------------------------------------
\* C17: a comparison of two positions gives true exactly if they refer to
\* the same Line and have the same offset, and a position never compares
\* equal to one that stands one or more items further on in the text.
C17_EqualIffSameLineAndOffset ==
    /\ observed.op = "eq" =>
          (observed.flag <=>
              /\ views[observed.view].line = views[observed.args[1]].line
              /\ views[observed.view].offset = views[observed.args[1]].offset)
    /\ \A i \in DOMAIN views, j \in DOMAIN views :
          views[j].advanced > views[i].advanced =>
              (~ViewEq(views[i], views[j]) /\ ~ViewEq(views[j], views[i]))

\* a position was compared with one made from it by advancing within the
\* same Line, and they were found unequal
C17_Witness ==
    /\ observed.op = "eq" /\ ~observed.flag
    /\ views[observed.view].line = views[observed.args[1]].line
    /\ views[observed.args[1]].advanced > views[observed.view].advanced

-----------------------------------------------------------------------------
\* what a source has not handed out yet
Unread(src) == IF src.kind = "LineSource" THEN Concat(src.rest) ELSE src.rest

\* C18: every call of the source made one Line, the Lines form one list in
\* the order they were read, and their contents followed by what the source
\* still holds are the input: no part of the input was read twice.  A Line
\* that has a successor keeps it: going over it again reads nothing.
C18_ReadOnce ==
    /\ [](/\ source.reads = Len(chain) - 1
          /\ \A id \in DOMAIN chain : chain[id].next \in {0, id + 1}
          /\ Concat([id \in DOMAIN chain |-> chain[id].line]) \o Unread(source) = input)
    /\ [][\A id \in DOMAIN chain :
            chain[id].next # 0 => (id \in DOMAIN chain' /\ chain'[id] = chain[id])]_vars

\* the whole input has been read, three positions are held, and the first
\* has just been sliced across Lines that were read before
C18_Witness ==
    /\ source.total_length # NoLength
    /\ Len(chain) >= 4
    /\ Len(views) = 3
    /\ observed.op = "getslice" /\ observed.view = 1 /\ Len(observed.items) >= 3

-----------------------------------------------------------------------------
\* the Lines that can be reached from a Line by way of next
RECURSIVE Linked(_, _)
Linked(c, id) == IF c[id].next = 0 THEN <<id>> ELSE <<id>> \o Linked(c, c[id].next)

\* C19: when two threads ask for the successor of the same Line, both are
\* given the same Line, and once both have walked to the end the source
\* has been read once for each Line of the list, whose contents are the
\* input, complete and in order.
C19_ConcurrentSuccessor ==
    /\ \A t \in DOMAIN threads, u \in DOMAIN threads :
       \A i \in DOMAIN threads[t].got, j \in DOMAIN threads[u].got :
          threads[t].got[i][1] = threads[u].got[j][1] =>
              threads[t].got[i][2] = threads[u].got[j][2]
    /\ (\A t \in DOMAIN threads : threads[t].pc = "done") =>
          /\ source.reads = Len(Linked(chain, 1)) - 1
          /\ Concat([k \in DOMAIN Linked(chain, 1) |-> chain[Linked(chain, 1)[k]].line]) = input

-----------------------------------------------------------------------------
\* C20: the length of a position is the number of items from it to the end
\* of the input; advancing by n is possible exactly if n is at most that
\* length, and the position reached is shorter by n.  The total is known
\* only once the source has been read to its end, it is the length of the
\* input, and the source is not touched again after it has stored it.
C20_Length ==
    /\ [](/\ \A i \in DOMAIN views :
                /\ ViewLen(Mem, views[i]).n = Len(input) - views[i].advanced
                /\ \A n \in 0..MaxLen + 2 :
                      LET o == GetFrom(Mem, views[i], n)
                      IN  /\ o.error <=> n > ViewLen(Mem, views[i]).n
                          /\ ~o.error =>
                                ViewLen(o.m, views[i]).n
                                    - ViewLen(o.m, View(o.line, o.n, 0)).n = n
          /\ source.total_length # NoLength =>
                (source.total_length = Len(input) /\ source.rest = <<>>))
    /\ [][source.total_length # NoLength => source' = source]_vars

\* the length of a position that was advanced was taken, over a source of
\* either kind, and the source had to be read for it
C20_Witness ==
    /\ observed.op = "len" /\ observed.n >= 1
    /\ views[observed.view].advanced >= 1
    /\ Len(chain) >= 4

-----------------------------------------------------------------------------
(* Locations in derived streams.                                           *)

\* the index in the text, from 0, of the item that each item of the
\* transformed text was made of
RECURSIVE Origins(_, _, _)
Origins(transform, text, i) ==
    IF i > Len(text) THEN <<>>
    ELSE [k \in 1..Len(Transformed(transform, text[i])) |-> i - 1]
         \o Origins(transform, text, i + 1)

\* the item of the input that the element at a position was made of
Origin(v) == Origins(source.transform, input, 1)[v.advanced + 1]

\* the location of the item at index j of the input in the original stream:
\* that of input[j:] for a stream of lines, and (None, j mod line_length, j)
\* for a stream of chunks
OriginalLocation(j) ==
    LET p == Location(StreamFrom(StreamView(1, 0), j).v)
    IN  IF source.inner.source.kind = "LineSource"
        THEN << p.line_number, p.line_offset, p.character_offset >>
        ELSE << 0, j % LineLength, j >>

\* C21: for every element produced by a transformed or filtered stream, the
\* location reported at that element's position (line number, line offset,
\* character offset) is the location, in the original stream, of the
\* element it was made of.
C21_DelegatedLocation ==
    source.kind = "TransformedSource" =>
        \A i \in DOMAIN views :
            Truthy(chain[views[i].line]) =>
                LET loc == ViewLocation(Mem, views[i])
                IN  /\ ~loc.error
                    /\ << loc.line_number, loc.line_offset, loc.character_offset >>
                           = OriginalLocation(Origin(views[i]))

\* the location was asked for at an element that has dropped items before it
C21_Witness ==
    /\ source.kind = "TransformedSource"
    /\ observed.op = "location"
    /\ Truthy(chain[views[observed.view].line])
    /\ views[observed.view].advanced > 0
    /\ observed.n > views[observed.view].advanced
    /\ observed.n = Origin(views[observed.view])

\* the offset in the input of a position of the original stream, given as
\* the (line, n) pair of an observation
OriginalOffset(o) == source.inner.chain[o.line].previous_length + o.n

\* the items of the input that elements before the one at v were made of,
\* other than the item the element at v was made of
Before(v) ==
    LET origins == Origins(source.transform, input, 1)
    IN  { origins[k] : k \in 1..v.advanced } \ { Origin(v) }

\* the first item of the input after those that elements before the one at
\* v were made of
Earliest(v) ==
    IF Before(v) = {} THEN 0
    ELSE 1 + CHOOSE j \in Before(v) : \A k \in Before(v) : k <= j

\* C22 as stated: for every element a caching transformed or filtered stream
\* has produced, locate at that element's position returns the position in
\* the original stream of the element it was made of.
C22_LocateOrigin ==
    (observed.op = "locate" /\ Truthy(chain[views[observed.view].line])) =>
        /\ ~observed.error
        /\ OriginalOffset(observed) = Origin(views[observed.view])

\* C22, amended: for every element a caching transformed or filtered stream
\* has produced, locate at that element's position returns the earliest
\* position in the original stream from which that element is the next one
\* made: the position after the item the previous elements were made of
\* (the start of the stream if there is none), which lies before the item
\* the element was made of when items in between were dropped.
C22_LocateEarliest ==
    (observed.op = "locate" /\ Truthy(chain[views[observed.view].line])) =>
        /\ ~observed.error
        /\ OriginalOffset(observed) = Earliest(views[observed.view])
        /\ OriginalOffset(observed) <= Origin(views[observed.view])

\* locate was applied at an element that has an element before it and
\* dropped items in between: the position returned is that of the first
\* dropped item
C22_Witness ==
    /\ observed.op = "locate"
    /\ ~observed.error
    /\ Truthy(chain[views[observed.view].line])
    /\ views[observed.view].advanced > 0
    /\ OriginalOffset(observed) < Origin(views[observed.view])
    /\ OriginalOffset(observed) > 0

\* the items a transform makes of a text
TransformedText(transform, text) ==
    [k \in DOMAIN Origins(transform, text, 1) |-> text[Origins(transform, text, 1)[k] + 1]]

\* text[n:]
From(text, n) == SubSeq(text, n + 1, Len(text))

\* C27: for every position the caching filtered stream has reached, the
\* position after its last element included, locate returns the first
\* position q of the original stream such that filtering the original from q
\* gives exactly the elements of the filtered stream from that position on.
C27_LocateFirstMatching ==
    (observed.op = "locate" /\ source.transform = "visible") =>
        /\ ~observed.error
        /\ LET rest == From(TransformedText("visible", input),
                            views[observed.view].advanced)
           IN  /\ TransformedText("visible", From(input, OriginalOffset(observed))) = rest
               /\ \A r \in 0..OriginalOffset(observed) - 1 :
                      TransformedText("visible", From(input, r)) # rest

\* C26: at a position past the end of the input, location reports -1 for
\* the line number, for the line offset and for the character offset.
C26_PastTheEnd ==
    \A i \in DOMAIN views :
        ~Truthy(chain[views[i].line]) =>
            LET loc == ViewLocation(Mem, views[i])
            IN  /\ ~loc.error
                /\ loc.line_number = -1
                /\ loc.line_offset = -1
                /\ loc.character_offset = -1

-----------------------------------------------------------------------------
(* Calls and returns of frames.                                            *)

\* the generator that a frame suspended at  yield generator  has yielded
Awaited(h, id) ==
    LET g == h.gens[id]
    IN  IF g.kind = "Repeat" THEN Last(g.stk).gen
        ELSE IF g.kind = "RMemo" THEN Lookup(h.rtable, Key(g.node, g.pos)).generator
        ELSE g.cur.gen

\* C28: every ordinary value produced by a frame is delivered by send to the
\* frame directly beneath it on the stack, the frame that yielded the
\* producing frame's generator, after the producing frame has been popped:
\* the value never skips a frame and never reaches another frame.
C28_CallReturn ==
    /\ [](\A i \in 1..Len(stack) - 1 :
             /\ heap.gens[stack[i]].pc = "wait"
             /\ Awaited(heap, stack[i]) = stack[i + 1])
    /\ [][(tpc = "loop" /\ ~IsGenerator(value) /\ ~exception /\ Len(stack) > 1) =>
              /\ stack' = Front(stack)
              /\ heap'.gens[Last(stack')] # heap.gens[Last(stack')]
              /\ Untouched((DOMAIN heap.gens) \ {Last(stack')})
              /\ tpc' = "loop"
         ]_vars

\* a frame with two frames or more beneath it that was sent the value of a
\* frame above it has produced a value in turn, which is about to be sent on
C28_Witness ==
    /\ tpc = "loop"
    /\ ~exception
    /\ value.t = "res"
    /\ Len(stack) >= 3
    /\ heap.gens[Last(stack)].kind \in {"And", "Repeat"}
    /\ heap.gens[Last(stack)].pc = "yielded"
    /\ heap.gens[stack[Len(stack) - 1]].kind # "RMemo"

\* C29: the root being a tagged generator, the stack is not empty whenever
\* the trampoline handles a value that is no generator (stack.pop() is never
\* applied to an empty stack), and it is empty whenever a result is handed
\* to the caller.
C29_StackBalanced ==
    /\ []((tpc \in {"new", "loop", "suspended"}) => IsGenerator(main))
    /\ []((tpc = "loop" /\ ~IsGenerator(value)) => stack # <<>>)
    /\ [](tpc = "suspended" => stack = <<>>)
    /\ [][results' # results => (Len(stack) = 1 /\ stack' = <<>>)]_vars

\* the caller was handed a second result, after frames were pushed and
\* popped again between the two
C29_Witness ==
    /\ tpc = "suspended"
    /\ stack = <<>>
    /\ Len(results) >= 2
    /\ Len(heap.gens) >= 4

\* C30: for a graph without left recursion and a finite input, every
\* request for the next result comes to an end after finitely many
\* iterations, with a result handed to the caller or with the end of the
\* parse; handing a result over suspends the trampoline, and no frame is
\* stepped from then until the caller asks for the next result.
C30_RequestsTerminate ==
    /\ (Matcher \in PlainGraphs /\ tpc \in {"new", "loop"})
           ~> (tpc \in {"suspended", "closed"})
    /\ [][ /\ results' # results => tpc' = "suspended"
           /\ tpc = "suspended" =>
                 /\ heap' = heap /\ stack' = stack /\ results' = results
                 /\ tpc' \in {"suspended", "loop"}
         ]_vars

\* a request made after a first result was handed over has come to its end:
\* the parse of a graph without left recursion is over, after two results
C30_Witness ==
    /\ Matcher \in PlainGraphs
    /\ mode = "matcher"
    /\ tpc = "closed"
    /\ value = StopIteration
    /\ Len(results) >= 2
    /\ Len(input) = MaxLen

-----------------------------------------------------------------------------
\* what the monitor has been told by the trampoline of this call of the
\* parser
Own == SubSeq(trace, Begin + 1, Len(trace))

\* C23: two successive parse invocations through the same parser share no
\* mutable state: the monitor attached for one invocation is discarded when
\* it completes, so that what the monitor holds during an invocation is what
\* it was told during that invocation.
C23_InvocationsIndependent == trace = Own

-----------------------------------------------------------------------------
(* Faults of the input source.                                             *)

\* the trampoline holds an IOError that a frame raised while reading
Faulted == tpc = "loop" /\ exception /\ value = IOError

\* C24: a fault raised by the input source while a frame reads the next
\* chunk is never caught by a grammar node: every step of the trampoline
\* that holds the fault either throws it into the frame below, which raises
\* it again, or raises it to the caller, and the caller's call of the
\* parser ends with it.
C24_SourceFaultFatal ==
    /\ [][Faulted => value' = IOError /\ exception' /\ tpc' \in {"loop", "closed"}]_vars
    /\ [](tpc = "closed" /\ value = IOError /\ ret # Pending => ret = Raised(IOError))

-----------------------------------------------------------------------------
(* The deepest match.                                                      *)

Maximum(S) == CHOOSE x \in S : \A y \in S : y <= x

\* the number of items of the input that lie before a position
Offset(p) ==
    IF p.k = "str" THEN Len(input) - Len(p.s)
    ELSE lines[p.line].previous_length + p.offset

\* what the monitor that records the deepest match reports: the furthest
\* position of the generators it was told of before they were run
RecordDeepest(calls) ==
    Maximum({-1} \cup
            {Offset(heap.gens[calls[i].generator].pos) :
                i \in {j \in DOMAIN calls :
                          calls[j].call \in {"before_next", "before_send", "before_throw"}}})

\* the offset a frame has reached: that of its stream, and one more if it
\* is an Any that has matched the item there
Reach(g) ==
    IF /\ g.kind = "Any"
       /\ StreamBool(g.pos)
       /\ StreamItem(g.pos, 0).ok
       /\ graph[g.node].chars # {} => StreamItem(g.pos, 0).v \in graph[g.node].chars
       /\ StreamFrom(g.pos, 1).ok
    THEN Offset(g.pos) + 1
    ELSE Offset(g.pos)

\* the frames that were run
Frames == {id \in DOMAIN heap.gens : heap.gens[id].pc # "start"}

FailsEntirely == ret # Pending /\ value = StopIteration /\ results = <<>>

\* C25: when the grammar fails entirely on the input, the deepest match the
\* monitor reports is the largest offset that any frame of the parse has
\* reached, the frames of alternatives that failed and were given up
\* included.
C25_DeepestMatch ==
    FailsEntirely => RecordDeepest(trace) = Maximum({Reach(heap.gens[id]) : id \in Frames})

\* the choice fails on three digits: its first alternative got to offset 2
\* and was given up, its second got to offset 1
C25_Witness ==
    /\ FailsEntirely
    /\ Matcher = BacktrackGraph
    /\ Len(input) = 3
    /\ RecordDeepest(trace) = 2
    /\ \E id \in Frames : heap.gens[id].node = 3 /\ heap.gens[id].pc = "done"

-----------------------------------------------------------------------------
(* Slices.                                                                 *)

\* the items of the text that lie after the place a position was made at
Left(v) == Len(input) - v.advanced

\* C31 as stated: position[n:m] with n <= m raises IndexError whenever fewer
\* than m items are left after the position, and otherwise returns exactly
\* the items at the offsets n to m - 1.
C31_SliceOrIndexError ==
    observed.op = "getslice" =>
        LET v == views[observed.view]
            n == observed.args[1]
            m == observed.args[2]
        IN  IF Left(v) < m THEN observed.error
            ELSE /\ ~observed.error
                 /\ observed.items = SubSeq(input, v.advanced + n + 1, v.advanced + m)

\* C31: position[n:m] with n <= m either returns exactly the m - n items at
\* the offsets n to m - 1 from the position, in order, whatever Lines they
\* lie in, or raises IndexError, and that only if fewer than m items are
\* left; it never returns fewer items, and it leaves every position as it
\* was.
C31_SliceExact ==
    /\ [](observed.op = "getslice" =>
            LET v == views[observed.view]
                n == observed.args[1]
                m == observed.args[2]
            IN  IF observed.error THEN Left(v) < m
                ELSE /\ Len(observed.items) = m - n
                     /\ Left(v) >= m \/ n = m
                     /\ \A k \in 1..(m - n) : observed.items[k] = input[v.advanced + n + k])
    /\ [][observed'.op = "getslice" => views' = views]_vars

\* a slice that starts in one Line and ends in a later one, taken from a
\* position that was made by advancing, and a slice that failed at the end
C31_Witness ==
    /\ observed.op = "getslice"
    /\ ~observed.error
    /\ views[observed.view].advanced > 0
    /\ observed.args[1] > 0
    /\ Len(observed.items) >= 2
    /\ source.kind = "CharacterSource"
    /\ views[observed.view].offset + observed.args[2] > LineLength

-----------------------------------------------------------------------------
(* Advancing.                                                              *)

\* position[n:][m:]: the second step is taken from the view the first made
AdvancedTwice(v, n, m) ==
    LET one == GetFrom(Mem, v, n)
    IN  IF one.error THEN one
        ELSE GetFrom(one.m, View(one.line, one.n, v.advanced + n), m)

\* C32: for every position and all n, m >= 0, advancing by n and then by m
\* gives the same Line and the same offset as advancing by n + m, if n + m
\* items are left, and IndexError in both forms if not; two positions made
\* from the first position of a stream that stand at the same place in the
\* text are equal.
C32_AdvanceComposes ==
    /\ \A i \in DOMAIN views : \A n \in 0..MaxLen, m \in 0..MaxLen :
          LET two == AdvancedTwice(views[i], n, m)
              direct == GetFrom(Mem, views[i], n + m)
          IN  IF n + m > Left(views[i]) THEN two.error /\ direct.error
              ELSE /\ ~two.error /\ ~direct.error
                   /\ two.line = direct.line /\ two.n = direct.n
    /\ \A i \in DOMAIN views, j \in DOMAIN views :
          views[i].advanced = views[j].advanced => ViewEq(views[i], views[j])

\* a position was made in two steps, the second into a later Line, and is
\* where one step from the first position leads
C32_Witness ==
    /\ Len(views) = 3
    /\ observed.op = "getfrom" /\ observed.view = 2 /\ observed.args[1] > 0
    /\ views[2].advanced > 0 /\ views[2].offset > 0
    /\ views[3].advanced = views[2].advanced + observed.args[1]
    /\ views[3].line # views[2].line
    /\ ~GetFrom(Mem, views[1], views[3].advanced).error
    /\ GetFrom(Mem, views[1], views[3].advanced).line = views[3].line
    /\ GetFrom(Mem, views[1], views[3].advanced).n = views[3].offset

-----------------------------------------------------------------------------
(* A stream over an iterator of lines (DefaultStreamFactory.from_lines):   *)
(* the iterator decides what the chunks are, and may deliver an empty one. *)

\* the chunks the iterator delivers
Chunks == { <<>>, <<"a">> }

\* the most chunks an iterator delivers
MaxChunks == 3

ChunkLists == UNION {[1..n -> Chunks] : n \in 0..MaxChunks}

\* LineSource(lines): the iterator's items are the lines, whatever they are
LineSourceOf(chunks) ==
    [kind |-> "LineSource", rest |-> chunks, character_count |-> 0,
     line_count |-> 1, total_length |-> NoLength, reads |-> 0]

\* the state after from_lines(chunks); input is all the items of the chunks
ChunkInit ==
    \E chunks \in ChunkLists :
        /\ input = Concat(chunks)
        /\ lines = from_string(Concat(chunks))
        /\ source = Open(LineSourceOf(chunks)).m.source
        /\ chain = Open(LineSourceOf(chunks)).m.chain
        /\ views = << Open(LineSourceOf(chunks)).view >>
        /\ observed = NoOut
        /\ threads = <<>>
        /\ ParseIdle

\* one thread applying operations to the positions of a stream of chunks
ChunkSpec == ChunkInit /\ [][StreamNext]_vars

\* C33: bool(position) is true if and only if an item of the source is left
\* at or after the position, whatever chunks the source delivers
C33_TruthyIffItemsLeft ==
    observed.op = "bool" => (observed.flag <=> Left(views[observed.view]) > 0)

-----------------------------------------------------------------------------
(* A stream over a sequence of items read in chunks of a fixed size        *)
(* (DefaultStreamFactory.from_items with a line_length).                   *)

\* items that differ from one another
Letters == <<"a", "b", "c", "d", "e">>

ItemTexts == {SubSeq(Letters, 1, n) : n \in 0..MaxLen}

\* the largest chunk size
MaxLineLength == 4

\* the state after from_items(items, line_length = line_length)
ItemsInit ==
    \E items \in ItemTexts, line_length \in 1..MaxLineLength :
        /\ input = items
        /\ lines = from_string(items)
        /\ source = Open([CharacterSource(items) EXCEPT !.line_length = line_length]).m.source
        /\ chain = Open([CharacterSource(items) EXCEPT !.line_length = line_length]).m.chain
        /\ views = << Open([CharacterSource(items) EXCEPT !.line_length = line_length]).view >>
        /\ observed = NoOut
        /\ threads = <<>>
        /\ ParseIdle

\* one thread applying operations to the positions of a stream of items
ItemsSpec == ItemsInit /\ [][StreamNext]_vars

\* C34: whatever the chunk size, the stream made of N items gives the k-th
\* item at index k for every k < N and all the items for the slice [0:N],
\* and the position reached by advancing N is empty
C34_ChunkingInvisible ==
    /\ (observed.op = "getitem" /\ views[observed.view].advanced = 0
            /\ observed.args[1] < Len(input))
        => (~observed.error /\ observed.items = << input[observed.args[1] + 1] >>)
    /\ (observed.op = "getslice" /\ views[observed.view].advanced = 0
            /\ observed.args = <<0, Len(input)>>)
        => (~observed.error /\ observed.items = input)
    /\ (observed.op = "getfrom" /\ views[observed.view].advanced = 0
            /\ observed.args[1] = Len(input))
        => (~observed.error /\ ~Truthy(chain[observed.line]))
    /\ \A i \in DOMAIN views :
        views[i].advanced = Len(input) => ~ViewBool(Mem, views[i]).flag

\* C34 witness: three items in chunks of two; a position has been made by
\* advancing three and the slice [0:3] of the stream has been taken
C34_Witness ==
    /\ Len(input) = 3
    /\ source.line_length = 2
    /\ observed.op = "getslice"
    /\ views[observed.view].advanced = 0
    /\ observed.args = <<0, 3>>
    /\ observed.items = input
    /\ \E i \in DOMAIN views : views[i].advanced = 3

-----------------------------------------------------------------------------
(* What a transformed or filtered stream delivers.                         *)

\* the lists the transform makes of the items of the text, one after another
Items(transform, text) ==
    Concat([i \in DOMAIN text |-> Transformed(transform, text[i])])

\* the elements of those items
Delivered(transform, text) == Concat(Items(transform, text))

\* the items of the text the predicate of the filter holds of
Kept(text) == SelectSeq(text, LAMBDA item : item # "\n")

\* what the derived stream is to deliver
Deliverable ==
    IF source.transform = "visible" THEN Kept(input) ELSE Delivered(source.transform, input)

\* C35: the items read from a transformed stream are the lists transform(e)
\* of the items e of the original stream, one after another, and those read
\* from a filtered stream the items the predicate holds of, in the order of
\* the original; a position is empty only where all of them lie before it
C35_DeliversTransformed ==
    /\ Kept(input) = Delivered("visible", input)
    /\ observed.op = "getitem" =>
        IF views[observed.view].advanced + observed.args[1] < Len(Deliverable)
        THEN /\ ~observed.error
             /\ observed.items =
                    << Deliverable[views[observed.view].advanced + observed.args[1] + 1] >>
        ELSE observed.error
    /\ (observed.op = "getslice" /\ ~observed.error) =>
        /\ Len(observed.items) = observed.args[2] - observed.args[1]
        /\ \A k \in 1..Len(observed.items) :
            /\ views[observed.view].advanced + observed.args[1] + k <= Len(Deliverable)
            /\ observed.items[k] =
                    Deliverable[views[observed.view].advanced + observed.args[1] + k]
    /\ \A i \in DOMAIN views :
        ViewBool(Mem, views[i]).flag <=> views[i].advanced < Len(Deliverable)

\* C35 witness: a filtered stream over a text with a newline between two
\* other items, of which both items have been read as one slice
C35_Witness ==
    /\ source.transform = "visible"
    /\ ~source.caching
    /\ input = <<"a", "\n", "a">>
    /\ observed.op = "getslice"
    /\ observed.args = <<0, 2>>
    /\ observed.items = <<"a", "a">>

-----------------------------------------------------------------------------
(* The length of a position of a transformed stream whose items have more  *)
(* than one element.                                                       *)

\* the streams made of a stream: FilteredSource.filtered_stream(predicate,
\* stream) and TransformedSource.transformed_stream(transform, stream)
LengthDerived == {"visible", "paired"}

\* a derived stream over a stream made by from_string
LengthInit ==
    \E text \in FilterTexts :
    \E transform \in LengthDerived :
        LET original == Open(LineSource(text))
            made == Open(TransformedSource(FALSE, transform, original.m, original.view))
        IN  /\ input = text
            /\ lines = from_string(text)
            /\ source = made.m.source
            /\ chain = made.m.chain
            /\ views = << made.view >>
            /\ observed = NoOut
            /\ threads = <<>>
            /\ ParseIdle

\* one thread applying operations to the positions of that stream
LengthSpec == LengthInit /\ [][StreamNext]_vars

\* the number of elements of an item of the derived stream
ItemSize == IF source.transform = "paired" THEN 2 ELSE 1

\* C36: len(position) is the number of items of the derived stream less the
\* number of items that lie before the position, whatever the items are
C36_LengthCountsItems ==
    (observed.op = "len" /\ views[observed.view].advanced % ItemSize = 0) =>
        /\ ~observed.error
        /\ observed.n = Len(Items(source.transform, input))
                            - (views[observed.view].advanced \div ItemSize)

-----------------------------------------------------------------------------
(* The test PostMatch applies to one result of its matcher, taken by       *)
(* itself: the result, and what the condition made of it, are given.       *)

\* what the matcher and the condition give as results
Outputs == {"a", "b", "c"}

\* the most results the condition gives at a time
MaxResults == 2

Results2 == UNION {[1..n -> Outputs] : n \in 0..MaxResults}

\* success after the try statement for one result: the condition has failed
\* (what is thrown in at yield generator2 is caught by except:) or has
\* given results2
Tested(not_, equals, result, failed, results2) ==
    IF failed THEN not_
    ELSE PostMatchTest([not_ |-> not_, equals |-> equals], result, results2)

\* a result of the matcher and the outcome of the condition for it
ConditionInit ==
    \E result \in Outputs, failed \in BOOLEAN, results2 \in Results2 :
        /\ failed => results2 = <<>>
        /\ observed = [op |-> "condition", result |-> result, failed |-> failed,
                       results2 |-> results2, not_ |-> FALSE, equals |-> TRUE,
                       success |-> TRUE]
        /\ input = <<>>
        /\ lines = from_string(<<>>)
        /\ source = LineSource(<<>>)
        /\ chain = <<>>
        /\ views = <<>>
        /\ threads = <<>>
        /\ ParseIdle

\* the body of the for loop of a PostMatch(matcher, condition, not_, equals)
ApplyCondition ==
    \E not_ \in BOOLEAN, equals \in BOOLEAN :
        /\ observed' = [observed EXCEPT
                            !.op = "PostMatch", !.not_ = not_, !.equals = equals,
                            !.success = Tested(not_, equals, observed.result,
                                               observed.failed, observed.results2)]
        /\ UNCHANGED <<source, chain, views, threads, input, lines, parsevars>>

ConditionSpec == ConditionInit /\ [][ApplyCondition]_vars

\* C37: for every result, every outcome of the condition and either value
\* of equals, the result passes with not_ set exactly when it is rejected
\* with not_ not set
C37_NotInverts ==
    observed.op = "PostMatch" =>
        (observed.success <=>
            ~Tested(~observed.not_, observed.equals, observed.result,
                    observed.failed, observed.results2))

-----------------------------------------------------------------------------
(* A stream of tokens read through a FilteredTokenHelper.  The state of    *)
(* the stream is a Cons, the rest of the sequence of tokens: the number of *)
(* tokens that lie before it.  input is the sequence of tokens, each given *)
(* by the id it carries.                                                   *)

\* the ids of the tokens: that of the continuation token, those of the end
\* and the start of a line, and that of any other token
TokenIds == {"continuation", "END", "START", "other"}

\* the most tokens in a stream
MaxTokens == 4

TokenStreams == UNION {[1..n -> TokenIds] : n \in 0..MaxTokens}

\* the ids a filter is made with: those of ContinuedLineFactory (the
\* continuation token, then end, then start), and a list of one id
IdLists == { <<"continuation", "END", "START">>, <<"continuation">> }

\* what next gives: an exception, or ((tokens, token), (state, helper)),
\* where n tells which token of the stream it is
Response(raised, tokens, n, state, helper) ==
    [raised |-> raised, tokens |-> tokens, n |-> n, state |-> state, helper |-> helper]

Thrown(error) == Response(error, {}, 0, 0, "")

\* TokenHelper.next(cons): (cons.head, (cons.tail, self)); the head of a
\* Cons that has run out raises StopIteration
TokenHelperNext(toks, cons) ==
    IF cons >= Len(toks) THEN Thrown("StopIteration")
    ELSE Response("", {toks[cons + 1]}, cons + 1, cons + 1, "TokenHelper")

\* add_self(response)
AddSelf(response) ==
    IF response.raised # "" THEN response
    ELSE [response EXCEPT !.helper = "FilteredTokenHelper"]

\* the while loop of FilteredTokenHelper.next: discard is what is left of
\* the ids, the next to come first
RECURSIVE Discard(_, _, _, _)

\* the body of the loop, r being what super().next(state) has given
DiscardRead(toks, discard, r, start) ==
    IF r.raised # "" THEN r
    ELSE IF Head(discard) \in r.tokens THEN Discard(toks, Tail(discard), r.state, start)
    ELSE AddSelf(TokenHelperNext(toks, start))

Discard(toks, discard, state, start) ==
    IF discard # <<>> THEN DiscardRead(toks, discard, TokenHelperNext(toks, state), start)
    ELSE AddSelf(TokenHelperNext(toks, state))

\* FilteredTokenHelper(delegate, *ids).next(state, count)
FilteredTokenHelperNext(toks, ids, state, count) ==
    IF count # 1 THEN Thrown("TypeError") ELSE Discard(toks, ids, state, state)

\* a stream of tokens with a filter as its helper, nothing read yet
TokenInit ==
    \E toks \in TokenStreams, ids \in IdLists :
        /\ input = toks
        /\ observed = [op |-> "none", ids |-> ids, start |-> 0, count |-> 0,
                       response |-> Response("", {}, 0, 0, "FilteredTokenHelper")]
        /\ lines = from_string(<<>>)
        /\ source = LineSource(<<>>)
        /\ chain = <<>>
        /\ views = <<>>
        /\ threads = <<>>
        /\ ParseIdle

\* what the caller holds after next(state, count) at the state it held
ReadThrough(count) ==
    LET r == FilteredTokenHelperNext(input, observed.ids, observed.response.state, count)
    IN  [op |-> "next", ids |-> observed.ids, start |-> observed.response.state,
         count |-> count,
         response |-> IF r.raised = "" THEN r
                      ELSE [r EXCEPT !.state = observed.response.state]]

\* s_next(stream): one token is read
NextToken ==
    /\ observed' = ReadThrough(1)
    /\ UNCHANGED <<source, chain, views, threads, input, lines, parsevars>>

\* s_next(stream, count) for another count
NextTokens ==
    /\ observed' = ReadThrough(2)
    /\ UNCHANGED <<source, chain, views, threads, input, lines, parsevars>>

TokenNext ==
    \/ NextToken
    \/ NextTokens

TokenSpec == TokenInit /\ [][TokenNext]_vars

\* the tokens from start on carry the ids of the filter, in order
RunAt(start) ==
    /\ Len(input) >= start + Len(observed.ids)
    /\ \A i \in DOMAIN observed.ids : input[start + i] = observed.ids[i]

\* C38: a read of one token through the filter gives the token after the
\* run if the tokens at the state carry all the ids of the filter in order,
\* and the token at the state itself if they do not, also where the tokens
\* run out part-way through the ids; the state returned has the filter as
\* its helper; a read of another count raises TypeError
C38_AllOrNothing ==
    observed.op = "next" =>
        IF observed.count # 1 THEN observed.response.raised = "TypeError"
        ELSE IF RunAt(observed.start) /\ Len(input) > observed.start + Len(observed.ids)
        THEN observed.response =
                Response("", {input[observed.start + Len(observed.ids) + 1]},
                         observed.start + Len(observed.ids) + 1,
                         observed.start + Len(observed.ids) + 1, "FilteredTokenHelper")
        ELSE IF RunAt(observed.start)
        THEN observed.response.raised = "StopIteration"
        ELSE IF observed.start < Len(input)
        THEN observed.response =
                Response("", {input[observed.start + 1]}, observed.start + 1,
                         observed.start + 1, "FilteredTokenHelper")
        ELSE observed.response.raised = "StopIteration"

=============================================================================
